---- MODULE Spec2Model ----
(***************************************************************************)
(* Recording-and-analysis coordination of VetTriage.                       *)
(*                                                                         *)
(*   RateGate      src/src/services/rateLimiter.ts                         *)
(*   final analysis src/src/services/groq.ts  (analyzeTranscript)          *)
(*   orchestrator  src/src/App.tsx            (HomePage, runAnalysis)      *)
(*   phase         src/src/hooks/useRecordingState.ts                      *)
(*   live pulse    src/unnamed/part_002       (useUrgencyPulse)            *)
(*   recognition   src/src/hooks/useSpeechRecognition.ts                   *)
(*   audio capture src/src/hooks/useAudioRecorder.ts                       *)
(*                 src/src/services/urgencyDetection.ts (detectUrgency)    *)
(*                                                                         *)
(* Time is Date.now() in milliseconds.  One step of the model is one       *)
(* macrotask of the event loop: a handler together with the microtask      *)
(* continuations it triggers, up to the next timer or network suspension.  *)
(***************************************************************************)
EXTENDS Integers, Sequences, FiniteSets, TLC

\* ------------------------------------------------------------------ bounds
NumCallers == 2      \* callers of the RateGate / analysis runs per behaviour
Horizon == 20000     \* milliseconds of simulated time after process start
MaxSegs == 2         \* final recognition results committed per recording
MaxRecordings == 1   \* recordings started per behaviour
MaxStreamEnds == 1   \* times the platform ends the recognition stream per behaviour
MaxFinals == 3       \* final recognition events delivered to the Diarizer per behaviour
DiarHorizon == 2500  \* milliseconds of simulated time of the Diarizer
MaxOps == 3          \* saveSession and clearSession calls per behaviour
StoreHorizon == 2    \* milliseconds of simulated time of the session store
AppHorizon == 13000  \* milliseconds of simulated time of the application
MaxSyncSegs == 3     \* segments of a transcript that is played back
MaxOffset == 3       \* latest capture time and latest playback position, in milliseconds
MaxSeeks == 2        \* segment clicks per behaviour

\* ------------------------------------------------------- program constants
MIN_INTERVAL_MS == 2000
DEFAULT_COOLDOWN_MS == 15000

\* Date.now() at process start: the epoch lies further back than any interval,
\* so the initial lastCallTime = 0 and cooldownUntil = 0 never delay a call.
StartTime == MIN_INTERVAL_MS
MaxTime == StartTime + Horizon
AppMaxTime == StartTime + AppHorizon
\* granularity with which the clock advances when no timer is due
TickMs == MIN_INTERVAL_MS

Callers == 1..NumCallers

VARIABLES
  now,                \* Date.now()
  \* --- rateLimiter.ts module state
  lastCallTime,
  isRequestInFlight,
  cooldownUntil,
  flightResolvers,    \* sequence of callers whose waitForInFlight promise is pending
  \* --- position of each caller inside waitForRateLimit
  gpc,                \* "idle" | "waitFlight" | "sleepCooldown" | "sleepInterval" | "holding"
  gwake,              \* due time of the caller's setTimeout
  cdAtCall,           \* cooldownUntil seen when the caller issued its acquire inside a cooldown, else 0
  \* --- HomePage (App.tsx)
  ENABLE_URGENCY_PULSE, \* feature flag, fixed for the life of the process
  phase,              \* useRecordingState: "idle" | "recording" | "processing" | "complete"
  segments,           \* useSpeechRecognition: committed segments
  listening,          \* the recognition stream has been started and not stopped
  report,             \* 0 = null, r = the report obtained by analysis run r
  analysisError,      \* "none" = null, else the message
  isRunningAnalysisRef,
  isTestTranscriptMode,
  cooldownSeconds,
  resetPending,       \* handleReset is awaiting clearSession()
  stopTimers,         \* pending setTimeout(() => runAnalysis(), 100), each with the segments of its closure
  \* --- runAnalysis / analyzeTranscript invocations that got past the guard
  runPc,              \* "none" | "delay" | "gate" | "fetch" | "done"
  runWake,            \* due time of the pacing delay
  runSegs,            \* segments captured by the closure
  nextRun,
  \* --- history
  finalFetches,       \* requests sent by analyzeTranscript
  dupSuppressed,      \* a runAnalysis invocation returned at the guard since the last run began
  recordings,         \* recordings started so far
  \* --- useUrgencyPulse (part_002) and detectUrgency
  urgency,            \* 0 = null, else the displayed score 1..5
  isAnalyzingRef,
  lastAnalysisTimeRef,
  abortControllerRef, \* TRUE when a controller is stored
  analysisIntervalRef,\* TRUE when the interval is set
  intervalDue,        \* next due time of the interval
  livePc,             \* "idle" | "fetch": detectUrgency has a request in flight
  liveSignalAborted,  \* the AbortSignal created for the request in flight has been aborted
  \* --- useSpeechRecognition (first version of the file)
  currentSpeaker,     \* state: "owner" | "vet"
  currentSpeakerRef,  \* ref kept in sync with the state by an effect
  lastSpeechTimeRef,
  shouldRestartRef,
  interimTranscript,  \* state: the preview of what is being said, not yet final
  speechError,        \* state error: "none" = null | "permission-denied" | "network" | "unknown"
  restartTimers,      \* due times of the pending setTimeout(() => recognition.start(), 100)
  streamEnds,         \* history: times the platform has ended the stream
  \* --- useAudioRecorder
  audioBlob,          \* 0 = null, k = the blob recorded by the recorder of recording k
  mediaRecorderRef,   \* 0 = null, k = the MediaRecorder created for recording k
  recorderState,      \* MediaRecorder.state of each recorder: "none" | "recording" | "inactive"
  onstopPending,      \* recorders whose stop event has not been delivered yet
  getUserMediaPending,\* startRecording calls awaiting navigator.mediaDevices.getUserMedia
  audioError,         \* state error of useAudioRecorder: "none" = null, else the message
  enteredWith,        \* history: what handleStartRecording found and discarded at the last start
  \* --- history of the final recognition events delivered since startListening
  hCount,             \* number of final events
  hTexts,             \* their texts, joined in arrival order
  hFirstAt,           \* arrival time of the first one
  hPrevAt,            \* arrival time of the latest one; before the first, the time of startListening
  hBigGaps,           \* how many arrived more than SPEAKER_CHANGE_THRESHOLD after hPrevAt
  hSpk0,              \* the speaker that was current before the first one
  hToggled,           \* toggleSpeaker has been used
  hStopped,           \* stopListening has been called
  \* --- services/sessionStorage.ts
  store,              \* the object store at SESSION_KEY: <<>> or <<the session>>
  ops,                \* the saveSession and clearSession calls, in the order of issue
  txnSeq,             \* number of transactions created so far
  expected,           \* history: the store if every call had run alone, in the order of issue
  sinceClear,         \* history: "clean" once a clearSession has finished and until the next save is issued
  \* --- callers of the gate
  cancelled,          \* callers that gave up (their cancellation signal fired) while waiting in the gate
  \* --- history of the analysis runs
  userStarts,         \* times the user asked for an analysis (Stop or Analyze Transcript), up to NumCallers
  throttledAt,        \* Date.now() when the latest 429 response was received, 0 if none
  \* --- HomePage, session restore
  sessionRestored,    \* App.tsx:96
  \* --- HomePage, playback
  segmentsWithTimes,  \* App.tsx:117-120
  audioCurrentTime,   \* App.tsx:95, in milliseconds
  activeSegmentIndex, \* App.tsx:123-126
  audioSeekTimeRef,   \* App.tsx:104: <<>> = null, <<t>> = a seek to t is requested
  seekTime,           \* the seekTime prop AudioPlayer got at the latest render of HomePage
  audioPosition,      \* audio.currentTime of the player
  hSeekRequests,      \* history: segment clicks so far
  hSeekApplied,       \* history: times the seek effect has set audio.currentTime
  \* --- ReportPreview (useEditableReport.ts)
  originalReport,     \* useEditableReport.ts:28, the report the hook was mounted with
  editedReport,       \* useEditableReport.ts:29, the hook's report state
  editedFields        \* useEditableReport.ts:30

gateVars == <<lastCallTime, isRequestInFlight, cooldownUntil, flightResolvers, gpc, gwake, cdAtCall>>
homeVars == <<phase, segments, listening, report, analysisError, isRunningAnalysisRef,
              isTestTranscriptMode, cooldownSeconds, resetPending, stopTimers>>
runVars == <<runPc, runWake, runSegs, nextRun, finalFetches, dupSuppressed, recordings>>
pulseVars == <<urgency, isAnalyzingRef, lastAnalysisTimeRef, abortControllerRef,
               analysisIntervalRef, intervalDue, livePc, liveSignalAborted>>
speechVars == <<currentSpeaker, currentSpeakerRef, lastSpeechTimeRef, shouldRestartRef,
                interimTranscript, speechError,
                restartTimers, streamEnds>>
audioVars == <<audioBlob, mediaRecorderRef, recorderState, onstopPending, getUserMediaPending,
               audioError,
               enteredWith>>
diarHist == <<hCount, hTexts, hFirstAt, hPrevAt, hBigGaps, hSpk0, hToggled, hStopped>>
storeVars == <<store, ops, txnSeq, expected, sinceClear>>
gateHist == <<cancelled>>
analysisHist == <<userStarts, throttledAt>>
restoreVars == <<sessionRestored>>
playVars == <<segmentsWithTimes, audioCurrentTime, activeSegmentIndex, audioSeekTimeRef,
              seekTime, audioPosition, hSeekRequests, hSeekApplied>>
editVars == <<originalReport, editedReport, editedFields>>
moreVars == <<gateHist, analysisHist, restoreVars, playVars, editVars>>
auxVars == <<diarHist, storeVars, moreVars>>
appVars == <<ENABLE_URGENCY_PULSE, homeVars, runVars, pulseVars, speechVars, audioVars, auxVars>>
vars == <<now, gateVars, appVars>>

\* ------------------------------------------------------------ RateGate
\* rateLimiter.ts:45-53: the interval check and the grant that follows it
AfterCooldown(t, last) ==
  IF t - last < MIN_INTERVAL_MS
    THEN [pc |-> "sleepInterval", wakeAt |-> t + (MIN_INTERVAL_MS - (t - last))]
    ELSE [pc |-> "holding", wakeAt |-> 0]

\* AfterInFlight without the cooldown check of rateLimiter.ts:39-43
AfterInFlight_NoCooldown(t, cd, last) == AfterCooldown(t, last)

\* rateLimiter.ts:36-53: what a caller does once waitForInFlight has resolved
AfterInFlight(t, cd, last) ==
  IF t < cd
    THEN [pc |-> "sleepCooldown", wakeAt |-> t + (cd - t)]
    ELSE AfterCooldown(t, last)

\* rateLimiter.ts:81-83
isInCooldown == now < cooldownUntil

\* rateLimiter.ts:88-91 with cooldownUntil = cd and Date.now() = t  (Math.ceil(remaining / 1000))
CooldownRemaining(cd, t) ==
  LET remaining == cd - t
  IN IF remaining > 0 THEN (remaining + 999) \div 1000 ELSE 0

getCooldownRemaining == CooldownRemaining(cooldownUntil, now)

Holders == {c \in DOMAIN gpc : gpc[c] = "holding"}

\* waitForRateLimit() called by c (rateLimiter.ts:20-26, 32-54), up to its first suspension
waitForRateLimit(c) ==
  /\ gpc[c] = "idle"
  /\ cdAtCall' = [cdAtCall EXCEPT ![c] = IF now < cooldownUntil THEN cooldownUntil ELSE 0]
  /\ IF isRequestInFlight
       THEN /\ flightResolvers' = Append(flightResolvers, c)
            /\ gpc' = [gpc EXCEPT ![c] = "waitFlight"]
            /\ UNCHANGED <<gwake, isRequestInFlight>>
       ELSE LET o == AfterInFlight(now, cooldownUntil, lastCallTime) IN
            /\ gpc' = [gpc EXCEPT ![c] = o.pc]
            /\ gwake' = [gwake EXCEPT ![c] = o.wakeAt]
            /\ isRequestInFlight' = (o.pc = "holding")
            /\ UNCHANGED flightResolvers
  /\ UNCHANGED <<lastCallTime, cooldownUntil>>

\* the setTimeout of rateLimiter.ts:42 or :49 fires for c; timers fire at or after their due time
timerFires(c) ==
  /\ gpc[c] \in {"sleepCooldown", "sleepInterval"}
  /\ now >= gwake[c]
  /\ LET o == IF gpc[c] = "sleepCooldown"
                THEN AfterCooldown(now, lastCallTime)
                ELSE [pc |-> "holding", wakeAt |-> 0] IN
       /\ gpc' = [gpc EXCEPT ![c] = o.pc]
       /\ gwake' = [gwake EXCEPT ![c] = o.wakeAt]
       /\ isRequestInFlight' = (isRequestInFlight \/ o.pc = "holding")
  /\ UNCHANGED <<lastCallTime, cooldownUntil, flightResolvers, cdAtCall>>

\* markRequestComplete() that leaves the pending resolvers in the queue
markRequestComplete_KeepsWaiters(c) ==
  /\ lastCallTime' = now
  /\ isRequestInFlight' = FALSE
  /\ gpc' = [gpc EXCEPT ![c] = "idle"]
  /\ cdAtCall' = [cdAtCall EXCEPT ![c] = 0]
  /\ UNCHANGED <<cooldownUntil, flightResolvers, gwake>>

\* markRequestComplete() called by c (rateLimiter.ts:60-68); every pending resolver is
\* resolved and its caller continues in a microtask of the same task
markRequestComplete(c) ==
  LET waiters == {flightResolvers[i] : i \in DOMAIN flightResolvers}
      o == AfterInFlight(now, cooldownUntil, now)
  IN /\ lastCallTime' = now
     /\ flightResolvers' = <<>>
     /\ gpc' = [x \in DOMAIN gpc |->
                  IF x \in waiters THEN o.pc ELSE IF x = c THEN "idle" ELSE gpc[x]]
     /\ gwake' = [x \in DOMAIN gwake |-> IF x \in waiters THEN o.wakeAt ELSE gwake[x]]
     /\ isRequestInFlight' = (waiters # {} /\ o.pc = "holding")
     /\ cdAtCall' = [cdAtCall EXCEPT ![c] = 0]
     /\ UNCHANGED cooldownUntil

\* setCooldown(seconds) (rateLimiter.ts:73-76)
setCooldown(seconds) ==
  /\ cooldownUntil' = now + seconds * 1000
  /\ UNCHANGED <<lastCallTime, isRequestInFlight, flightResolvers, gpc, gwake, cdAtCall>>

\* ------------------------------------------------------------ clock
GateTimerDues ==
  {gwake[c] : c \in {x \in DOMAIN gpc : gpc[x] \in {"sleepCooldown", "sleepInterval"}}}

AppTimerDues ==
  {runWake[r] : r \in {x \in DOMAIN runPc : runPc[x] = "delay"}}
    \cup {t.due : t \in stopTimers}
    \cup (IF analysisIntervalRef THEN {intervalDue} ELSE {})
    \cup restartTimers

\* Time passes in the application.  The code observes the clock only through its timers
\* and through Date.now() inside handlers, so the clock advances from one due time to a
\* later one; a timer may still fire arbitrarily late relative to every other event.
Tick ==
  /\ \E t \in GateTimerDues \cup AppTimerDues :
       /\ t > now
       /\ t <= AppMaxTime
       /\ now' = t
  /\ UNCHANGED <<gateVars, appVars>>

\* Time passes for the callers of the gate: to a due time, or by TickMs
HTick ==
  /\ \E t \in {now + TickMs} \cup GateTimerDues :
       /\ t > now
       /\ t <= MaxTime
       /\ now' = t
  /\ UNCHANGED <<gateVars, appVars>>

\* Time passes for the callers of the gate until a sleep of the gate is over
HSleep ==
  /\ \E t \in GateTimerDues :
       /\ t > now
       /\ t <= MaxTime
       /\ now' = t
  /\ UNCHANGED <<gateVars, appVars>>

\* ------------------------------------------------------------ RateGate harness
\* Any number of independent call sites using the contract of the gate:
\* acquire, perform the call, report throttling, release.
HAcquire(c) == waitForRateLimit(c) /\ UNCHANGED <<now, appVars>>
HTimer(c) == timerFires(c) /\ UNCHANGED <<now, appVars>>
HRelease(c) == gpc[c] = "holding" /\ markRequestComplete(c) /\ UNCHANGED <<now, appVars>>
HThrottled(c) ==
  /\ gpc[c] = "holding"
  /\ setCooldown(DEFAULT_COOLDOWN_MS \div 1000)
  /\ UNCHANGED <<now, appVars>>

\* The caller c stops wanting the call while it waits inside waitForRateLimit.
\* waitForRateLimit() takes no argument (rateLimiter.ts:32) and analyzeTranscript passes
\* none (groq.ts:276), so nothing of the gate changes and the wait goes on.
HCancel(c) ==
  /\ gpc[c] \in {"waitFlight", "sleepCooldown", "sleepInterval"}
  /\ c \notin cancelled
  /\ cancelled' = cancelled \cup {c}
  /\ UNCHANGED <<now, gateVars, ENABLE_URGENCY_PULSE, homeVars, runVars, pulseVars, speechVars,
                 audioVars, diarHist, storeVars, analysisHist, restoreVars, playVars, editVars>>

\* module state of rateLimiter.ts:9-12 at load, no caller inside the gate
InitRateLimiter ==
  /\ now = StartTime
  /\ lastCallTime = 0
  /\ isRequestInFlight = FALSE
  /\ cooldownUntil = 0
  /\ flightResolvers = <<>>
  /\ gpc = [c \in Callers |-> "idle"]
  /\ gwake = [c \in Callers |-> 0]
  /\ cdAtCall = [c \in Callers |-> 0]

\* HomePage after its first render (App.tsx:59-107, part_002:25-33)
InitHome ==
  /\ phase = "idle"
  /\ segments = <<>>
  /\ listening = FALSE
  /\ report = 0
  /\ analysisError = "none"
  /\ isRunningAnalysisRef = FALSE
  /\ isTestTranscriptMode = FALSE
  /\ cooldownSeconds = 0
  /\ resetPending = FALSE
  /\ stopTimers = {}
  /\ runPc = [r \in Callers |-> "none"]
  /\ runWake = [r \in Callers |-> 0]
  /\ runSegs = [r \in Callers |-> <<>>]
  /\ nextRun = 1
  /\ finalFetches = 0
  /\ dupSuppressed = FALSE
  /\ recordings = 0
  /\ urgency = 0
  /\ isAnalyzingRef = FALSE
  /\ lastAnalysisTimeRef = 0
  /\ abortControllerRef = FALSE
  /\ analysisIntervalRef = FALSE
  /\ intervalDue = 0
  /\ livePc = "idle"
  /\ liveSignalAborted = FALSE
  /\ currentSpeaker = "owner"
  /\ currentSpeakerRef = "owner"
  /\ lastSpeechTimeRef = StartTime
  /\ shouldRestartRef = FALSE
  /\ interimTranscript = <<>>
  /\ speechError = "none"
  /\ restartTimers = {}
  /\ streamEnds = 0
  /\ audioBlob = 0
  /\ mediaRecorderRef = 0
  /\ recorderState = [k \in 1..MaxRecordings |-> "none"]
  /\ onstopPending = {}
  /\ getUserMediaPending = {}
  /\ audioError = "none"
  /\ enteredWith = {}
  /\ hCount = 0
  /\ hTexts = <<>>
  /\ hFirstAt = 0
  /\ hPrevAt = StartTime
  /\ hBigGaps = 0
  /\ hSpk0 = "owner"
  /\ hToggled = FALSE
  /\ hStopped = FALSE
  /\ ops = <<>>
  /\ txnSeq = 0
  /\ expected = <<>>
  /\ sinceClear = "none"
  /\ cancelled = {}
  /\ userStarts = 0
  /\ throttledAt = 0

\* nothing to play back: no segments, playback position 0 (App.tsx:95, 117-126)
InitPlayer ==
  /\ segmentsWithTimes = <<>>
  /\ audioCurrentTime = 0
  /\ activeSegmentIndex = -1
  /\ audioSeekTimeRef = <<>>
  /\ seekTime = <<>>
  /\ audioPosition = 0
  /\ hSeekRequests = 0
  /\ hSeekApplied = 0

\* a process that starts with an empty store, after the effect of App.tsx:128-134
\* no report is shown, so ReportPreview and its hook are not mounted
InitNoPreview ==
  /\ originalReport = <<>>
  /\ editedReport = <<>>
  /\ editedFields = {}

InitFresh ==
  /\ store = <<>>
  /\ sessionRestored = TRUE
  /\ InitPlayer
  /\ InitNoPreview

InitGate == InitRateLimiter /\ InitHome /\ InitFresh /\ ENABLE_URGENCY_PULSE = FALSE

NextGate ==
  \/ \E c \in Callers : HAcquire(c)
  \/ \E c \in Callers : HTimer(c)
  \/ \E c \in Callers : HRelease(c)
  \/ \E c \in Callers : HThrottled(c)
  \/ HTick

SpecGate == InitGate /\ [][NextGate]_vars

\* the callers of the gate keep their side of the contract, each holder releasing the
\* lock in the end, and the platform runs every timer that is due
FairnessGate ==
  /\ WF_vars(HSleep)
  /\ \A c \in Callers : WF_vars(HTimer(c))
  /\ \A c \in Callers : WF_vars(HRelease(c))

\* the gate with callers that arrive when something happens in the gate: time passes
\* from one due time of a sleep to a later one
NextGateLive ==
  \/ \E c \in Callers : HAcquire(c)
  \/ \E c \in Callers : HTimer(c)
  \/ \E c \in Callers : HRelease(c)
  \/ \E c \in Callers : HThrottled(c)
  \/ HSleep

FairSpecGate == InitGate /\ [][NextGateLive]_vars /\ FairnessGate

\* the callers may also give up while they wait
NextGateCancel == NextGate \/ \E c \in Callers : HCancel(c)

SpecGateCancel == InitGate /\ [][NextGateCancel]_vars

\* ------------------------------------------------------------ HomePage
STOP_TO_ANALYSIS_MS == 100   \* App.tsx:623
DELAY_TEST_MS == 100         \* App.tsx:228
DELAY_LIVE_MS == 200         \* App.tsx:228
PULSE_INTERVAL_MS == 6000    \* part_002:117
PULSE_MIN_GAP_MS == 5000     \* part_002:58

\* getMockTranscript(); recorded segments are numbered 1, 2, ... in commit order
MockTranscript == <<0>>

\* outcomes of the fetch in analyzeTranscript (groq.ts:279-352)
\* "throw" is an exception with a message, "throwEmpty" one whose message is empty
FetchOutcomes ==
  {"ok", "401", "429", "apiError", "empty", "unparsable", "invalid", "throw", "throwEmpty"}

\* the error message of a failure result (groq.ts:247-352)
ErrorOf(outcome) ==
  CASE outcome = "offline" -> "You're offline."
    [] outcome = "nokey" -> "No API key configured."
    [] outcome = "401" -> "Invalid API key."
    [] outcome = "429" -> "Rate limit exceeded."
    [] outcome = "apiError" -> "API error"
    [] outcome = "empty" -> "No response from AI."
    [] outcome = "unparsable" -> "Failed to parse AI response as JSON."
    [] outcome = "invalid" -> "AI response missing required fields."
    [] outcome = "throwEmpty" -> ""
    [] OTHER -> "Unknown error occurred."

\* the message is shown as the result carries it
ErrorShown_NoDefault(error) == error

\* App.tsx:239: result.error || "Analysis failed"
ErrorShown(error) == IF error = "" THEN "Analysis failed" ELSE error

\* App.tsx:111-114: the isRecording argument handed to useUrgencyPulse
PulseIsRecording(flag, st, test) == flag /\ st = "recording" /\ ~test

\* part_002:95-139: the effects of useUrgencyPulse, run when isRecording changes
UrgencyPulseEffects ==
  LET was == PulseIsRecording(ENABLE_URGENCY_PULSE, phase, isTestTranscriptMode)
      is == PulseIsRecording(ENABLE_URGENCY_PULSE, phase', isTestTranscriptMode')
  IN IF was = is
       THEN UNCHANGED <<urgency, abortControllerRef, analysisIntervalRef, intervalDue,
                        liveSignalAborted>>
       ELSE IF is
         THEN /\ analysisIntervalRef' = TRUE
              /\ intervalDue' = now + PULSE_INTERVAL_MS
              /\ UNCHANGED <<urgency, abortControllerRef, liveSignalAborted>>
         ELSE /\ liveSignalAborted' = (liveSignalAborted \/ abortControllerRef)
              /\ abortControllerRef' = FALSE
              /\ analysisIntervalRef' = FALSE
              /\ intervalDue' = 0
              /\ urgency' = 0

\* ---- useSpeechRecognition: the stream and its refs, as a record sp
RESTART_DELAY_MS == 100            \* useSpeechRecognition.ts:94
SPEAKER_CHANGE_THRESHOLD == 1500   \* useSpeechRecognition.ts:15

SpeechNow ==
  [listening |-> listening, shouldRestartRef |-> shouldRestartRef,
   lastSpeechTimeRef |-> lastSpeechTimeRef, interimTranscript |-> interimTranscript,
   error |-> speechError]

SetSpeech(sp) ==
  /\ listening' = sp.listening
  /\ shouldRestartRef' = sp.shouldRestartRef
  /\ interimTranscript' = sp.interimTranscript
  /\ speechError' = sp.error
  /\ lastSpeechTimeRef' = sp.lastSpeechTimeRef

\* startListening() (useSpeechRecognition.ts:206-217) and the start event that follows
\* recognition.start() (:76-80); start() on a running stream throws and is ignored
startListening(sp) ==
  [sp EXCEPT !.shouldRestartRef = TRUE, !.lastSpeechTimeRef = now, !.listening = TRUE,
             !.error = "none"]

\* stopListening() (useSpeechRecognition.ts:219-228) and the end event that follows
\* recognition.stop() (:82-96), which finds shouldRestartRef false and clears the preview
stopListening(sp) ==
  [sp EXCEPT !.shouldRestartRef = FALSE, !.listening = FALSE, !.interimTranscript = <<>>]

\* the part of reset() that touches the stream (useSpeechRecognition.ts:234-240)
resetSpeech(sp) ==
  [sp EXCEPT !.shouldRestartRef = FALSE, !.interimTranscript = <<>>, !.error = "none"]

\* ---- useAudioRecorder: the recorder and its blob, as a record a
AudioNow ==
  [audioBlob |-> audioBlob, mediaRecorderRef |-> mediaRecorderRef,
   recorderState |-> recorderState, onstopPending |-> onstopPending,
   getUserMediaPending |-> getUserMediaPending, error |-> audioError]

SetAudio(a) ==
  /\ audioBlob' = a.audioBlob
  /\ mediaRecorderRef' = a.mediaRecorderRef
  /\ recorderState' = a.recorderState
  /\ onstopPending' = a.onstopPending
  /\ getUserMediaPending' = a.getUserMediaPending
  /\ audioError' = a.error

\* startRecording() up to its await of getUserMedia, for recording k (useAudioRecorder.ts:42-47)
startAudioRecording(a, k) ==
  [a EXCEPT !.getUserMediaPending = @ \cup {k}, !.error = "none"]

\* stopRecording() (useAudioRecorder.ts:106-116): stops the recorder the ref holds, if recording
stopAudioRecording(a) ==
  LET k == a.mediaRecorderRef
  IN IF k # 0 /\ a.recorderState[k] = "recording"
       THEN [a EXCEPT !.recorderState[k] = "inactive", !.onstopPending = @ \cup {k}]
       ELSE a

\* reset() (useAudioRecorder.ts:131-158)
resetAudio(a) ==
  [stopAudioRecording(a) EXCEPT !.audioBlob = 0, !.mediaRecorderRef = 0, !.error = "none"]

Capturing == \E k \in DOMAIN recorderState : recorderState[k] = "recording"

\* App.tsx:167-186: start or stop the capture streams when the phase changes; sp and a are
\* the hooks' state as the handler left it
RecordingEffect(sp, a) ==
  IF phase' = phase THEN [sp |-> sp, a |-> a]
  ELSE IF phase' = "recording"
    THEN [sp |-> startListening(sp), a |-> startAudioRecording(a, recordings')]
  ELSE IF phase' # "idle"
    THEN [sp |-> stopListening(sp), a |-> stopAudioRecording(a)]
  ELSE [sp |-> sp, a |-> a]

\* effects of the render that follows a handler; they run in the step of the handler
Effects(sp, a) ==
  /\ LET e == RecordingEffect(sp, a) IN SetSpeech(e.sp) /\ SetAudio(e.a)
  /\ UrgencyPulseEffects
  /\ UNCHANGED <<isAnalyzingRef, lastAnalysisTimeRef, livePc>>

\* one more request of the user; counted up to NumCallers, the runs a behaviour can have
CountStart(n) == IF n < NumCallers THEN n + 1 ELSE n

\* runAnalysis without its guard
AlreadyRunning_NoGuard == FALSE

\* App.tsx:213: the local single-flight guard of runAnalysis
AlreadyRunning == isRunningAnalysisRef

\* runAnalysis() of the closure that captured segs and test (App.tsx:211-229),
\* up to its pacing delay
runAnalysis(segs, test) ==
  IF AlreadyRunning
    THEN /\ dupSuppressed' = TRUE
         /\ UNCHANGED <<phase, analysisError, isRunningAnalysisRef, runPc, runWake, runSegs,
                        nextRun>>
    ELSE IF Len(segs) = 0
      THEN /\ phase' = "complete"
           /\ UNCHANGED <<analysisError, isRunningAnalysisRef, runPc, runWake, runSegs,
                          nextRun, dupSuppressed>>
      ELSE /\ nextRun <= NumCallers
           /\ isRunningAnalysisRef' = TRUE
           /\ phase' = "processing"
           /\ analysisError' = "none"
           /\ runPc' = [runPc EXCEPT ![nextRun] = "delay"]
           /\ runWake' = [runWake EXCEPT ![nextRun] =
                            now + (IF test THEN DELAY_TEST_MS ELSE DELAY_LIVE_MS)]
           /\ runSegs' = [runSegs EXCEPT ![nextRun] = segs]
           /\ nextRun' = nextRun + 1
           /\ dupSuppressed' = FALSE

\* every runAnalysis invocation still to come can be given a run of its own, and its
\* timers fall inside the simulated time
RunAvailable(delay) ==
  /\ nextRun + Cardinality(stopTimers) <= NumCallers
  /\ now + delay <= AppMaxTime

\* handleStartRecording whose resetSpeech() leaves the segments in place
ClickStart_KeepsSegments ==
  /\ phase = "idle"
  /\ recordings < MaxRecordings
  /\ recordings' = recordings + 1
  /\ report' = 0
  /\ analysisError' = "none"
  /\ isTestTranscriptMode' = FALSE
  /\ segments' = segments
  /\ currentSpeaker' = "owner"
  /\ currentSpeakerRef' = "owner"
  /\ enteredWith' = (IF Len(segments) > 0 THEN {"segments"} ELSE {})
                       \cup (IF report # 0 THEN {"report"} ELSE {})
                       \cup (IF analysisError # "none" THEN {"error"} ELSE {})
                       \cup (IF audioBlob # 0 THEN {"audio"} ELSE {})
  /\ phase' = "recording"
  /\ Effects(resetSpeech(SpeechNow), resetAudio(AudioNow))
  /\ UNCHANGED <<now, gateVars, auxVars, ENABLE_URGENCY_PULSE, isRunningAnalysisRef, cooldownSeconds,
                 resetPending, stopTimers, runPc, runWake, runSegs, nextRun, finalFetches,
                 dupSuppressed, restartTimers, streamEnds>>

\* RecordButton click in idle: handleStartRecording (RecordButton.tsx:153-164, App.tsx:301-309)
ClickStart ==
  /\ phase = "idle"
  /\ recordings < MaxRecordings
  /\ recordings' = recordings + 1
  /\ report' = 0
  /\ analysisError' = "none"
  /\ isTestTranscriptMode' = FALSE
  /\ segments' = <<>>
  /\ currentSpeaker' = "owner"
  /\ currentSpeakerRef' = "owner"
  /\ enteredWith' = (IF Len(segments) > 0 THEN {"segments"} ELSE {})
                       \cup (IF report # 0 THEN {"report"} ELSE {})
                       \cup (IF analysisError # "none" THEN {"error"} ELSE {})
                       \cup (IF audioBlob # 0 THEN {"audio"} ELSE {})
  /\ phase' = "recording"
  /\ Effects(resetSpeech(SpeechNow), resetAudio(AudioNow))
  /\ UNCHANGED <<now, gateVars, auxVars, ENABLE_URGENCY_PULSE, isRunningAnalysisRef, cooldownSeconds,
                 resetPending, stopTimers, runPc, runWake, runSegs, nextRun, finalFetches,
                 dupSuppressed, restartTimers, streamEnds>>

\* recognition.onresult commits a final result while the stream is running, as HomePage sees
\* it: the segment list changes.  Here the segments are numbered in commit order; what
\* the list becomes is onresult, in the Diarizer section.
FinalResult ==
  /\ listening
  /\ Len(segments) < MaxSegs
  /\ segments' = Append(segments, Len(segments) + 1)
  /\ UNCHANGED <<now, gateVars, auxVars, ENABLE_URGENCY_PULSE, phase, listening, report, analysisError,
                 isRunningAnalysisRef, isTestTranscriptMode, cooldownSeconds, resetPending,
                 stopTimers, runVars, pulseVars, speechVars, audioVars>>

\* recognition.stop() makes the recognizer return what it has heard so far: onresult
\* commits a final result after stopListening() (useSpeechRecognition.ts:126-195, 219-228),
\* here before the timer of onStop fires.  The stream was running when Stop was pressed
\* in every behaviour whose stream is never ended by the platform
LateFinalResult ==
  /\ phase = "processing"
  /\ ~isTestTranscriptMode
  /\ stopTimers # {}
  /\ Len(segments) < MaxSegs
  /\ segments' = Append(segments, Len(segments) + 1)
  /\ UNCHANGED <<now, gateVars, auxVars, ENABLE_URGENCY_PULSE, phase, listening, report, analysisError,
                 isRunningAnalysisRef, isTestTranscriptMode, cooldownSeconds, resetPending,
                 stopTimers, runVars, pulseVars, speechVars, audioVars>>

\* RecordButton click while recording: onStop (App.tsx:620-624, useRecordingState.ts:27-31)
ClickStop ==
  /\ phase = "recording"
  /\ RunAvailable(STOP_TO_ANALYSIS_MS + DELAY_LIVE_MS)
  /\ phase' = "processing"
  /\ stopTimers' = stopTimers \cup {[due |-> now + STOP_TO_ANALYSIS_MS, segs |-> segments,
                                     test |-> isTestTranscriptMode]}
  /\ userStarts' = CountStart(userStarts)
  /\ Effects(SpeechNow, AudioNow)
  /\ UNCHANGED <<now, gateVars, diarHist, storeVars, gateHist, restoreVars, playVars, editVars, throttledAt,
                 ENABLE_URGENCY_PULSE, segments, report, analysisError,
                 isRunningAnalysisRef, isTestTranscriptMode, cooldownSeconds, resetPending,
                 runVars, currentSpeaker, currentSpeakerRef, restartTimers, streamEnds,
                 enteredWith>>

\* the timer set by onStop fires and calls runAnalysis (App.tsx:623)
StopTimerFires ==
  \E t \in stopTimers :
    /\ now >= t.due
    /\ stopTimers' = stopTimers \ {t}
    /\ runAnalysis(t.segs, t.test)
    /\ UNCHANGED <<isTestTranscriptMode>>
    /\ Effects(SpeechNow, AudioNow)
    /\ UNCHANGED <<now, gateVars, auxVars, ENABLE_URGENCY_PULSE, segments, report, cooldownSeconds,
                   resetPending, finalFetches, recordings, currentSpeaker, currentSpeakerRef,
                   restartTimers, streamEnds, enteredWith>>

\* "Analyze Transcript" button: analyzeLoadedTranscript (App.tsx:330-333, 674-688)
ClickAnalyze ==
  /\ phase = "idle"
  /\ Len(segments) > 0
  /\ cooldownSeconds = 0
  /\ RunAvailable(DELAY_LIVE_MS)
  /\ runAnalysis(segments, isTestTranscriptMode)
  /\ userStarts' = CountStart(userStarts)
  /\ UNCHANGED <<isTestTranscriptMode>>
  /\ Effects(SpeechNow, AudioNow)
  /\ UNCHANGED <<now, gateVars, diarHist, storeVars, gateHist, restoreVars, playVars, editVars, throttledAt,
                 ENABLE_URGENCY_PULSE, segments, report, cooldownSeconds,
                 resetPending, stopTimers, finalFetches, recordings, currentSpeaker,
                 currentSpeakerRef, restartTimers, streamEnds, enteredWith>>

\* RecordButton click in complete: handleReset starts and awaits clearSession()
\* (RecordButton.tsx:155-158, App.tsx:256-258)
ClickReset ==
  /\ phase = "complete"
  /\ ~resetPending
  /\ resetPending' = TRUE
  /\ UNCHANGED <<now, gateVars, auxVars, ENABLE_URGENCY_PULSE, phase, segments, listening, report,
                 analysisError, isRunningAnalysisRef, isTestTranscriptMode, cooldownSeconds,
                 stopTimers, runVars, pulseVars, speechVars, audioVars>>

\* handleReset continues after clearSession() (App.tsx:260-271)
ResetContinues ==
  /\ resetPending
  /\ resetPending' = FALSE
  /\ phase' = "idle"
  /\ segments' = <<>>
  /\ report' = 0
  /\ analysisError' = "none"
  /\ isTestTranscriptMode' = FALSE
  /\ cooldownSeconds' = 0
  /\ currentSpeaker' = "owner"
  /\ currentSpeakerRef' = "owner"
  /\ Effects(resetSpeech(SpeechNow), resetAudio(AudioNow))
  /\ UNCHANGED <<now, gateVars, auxVars, ENABLE_URGENCY_PULSE, isRunningAnalysisRef, stopTimers, runVars,
                 restartTimers, streamEnds, enteredWith>>

\* "Load Test Transcript" button, available in every phase (App.tsx:312-327, 667-672)
ClickLoadTest ==
  /\ phase' = "idle"
  /\ segments' = MockTranscript
  /\ report' = 0
  /\ analysisError' = "none"
  /\ isTestTranscriptMode' = TRUE
  /\ currentSpeaker' = "owner"
  /\ currentSpeakerRef' = "owner"
  /\ Effects(resetSpeech(SpeechNow), resetAudio(AudioNow))
  /\ UNCHANGED <<now, gateVars, auxVars, ENABLE_URGENCY_PULSE, isRunningAnalysisRef, cooldownSeconds,
                 resetPending, stopTimers, runVars, restartTimers, streamEnds, enteredWith>>

\* the guard is left as it is
ReleaseGuard_Kept == isRunningAnalysisRef

\* the guard after the finally of runAnalysis (App.tsx:247-253)
ReleaseGuard == FALSE

\* runAnalysis receives the result of analyzeTranscript and finishes (App.tsx:234-253)
RunCompletes(r, outcome) ==
  /\ IF outcome = "ok"
       THEN /\ report' = r
            /\ UNCHANGED <<analysisError, cooldownSeconds>>
       ELSE /\ analysisError' = ErrorShown(ErrorOf(outcome))
            /\ cooldownSeconds' = getCooldownRemaining
            /\ UNCHANGED report
  /\ phase' = "complete"
  /\ isRunningAnalysisRef' = ReleaseGuard
  /\ runPc' = [runPc EXCEPT ![r] = "done"]
  /\ throttledAt' = IF outcome = "429" THEN now ELSE throttledAt
  /\ UNCHANGED <<isTestTranscriptMode>>
  /\ Effects(SpeechNow, AudioNow)
  /\ UNCHANGED <<now, diarHist, storeVars, gateHist, restoreVars, playVars, editVars, userStarts,
                 ENABLE_URGENCY_PULSE, segments, resetPending, stopTimers, runWake,
                 runSegs, nextRun, dupSuppressed, recordings, currentSpeaker, currentSpeakerRef,
                 restartTimers, streamEnds, enteredWith>>

\* the pacing delay of run r is over: analyzeTranscript is called (App.tsx:229-234,
\* groq.ts:243-291); it returns early, or passes the gate and sends the request, or waits
RunDelayDone(r) ==
  /\ runPc[r] = "delay"
  /\ now >= runWake[r]
  /\ \E online \in BOOLEAN, hasKey \in BOOLEAN :
       IF ~online \/ ~hasKey
         THEN /\ RunCompletes(r, IF ~online THEN "offline" ELSE "nokey")
              /\ UNCHANGED <<gateVars, finalFetches>>
         ELSE /\ waitForRateLimit(r)
              /\ runPc' = [runPc EXCEPT ![r] = IF gpc'[r] = "holding" THEN "fetch" ELSE "gate"]
              /\ finalFetches' = finalFetches + (IF gpc'[r] = "holding" THEN 1 ELSE 0)
              /\ UNCHANGED <<now, auxVars, ENABLE_URGENCY_PULSE, homeVars, runWake, runSegs, nextRun,
                             dupSuppressed, recordings, pulseVars, speechVars, audioVars>>

\* the request of run r settles (groq.ts:293-352)
FetchReturns(r) ==
  /\ runPc[r] = "fetch"
  /\ \E outcome \in FetchOutcomes : RunCompletes(r, outcome)
  /\ UNCHANGED <<gateVars, finalFetches>>

\* ------------------------------------------------------------ capture streams
\* the platform ends the recognition stream: recognition.onend (useSpeechRecognition.ts:82-96)
onend ==
  /\ listening
  /\ streamEnds < MaxStreamEnds
  /\ now + RESTART_DELAY_MS <= AppMaxTime
  /\ streamEnds' = streamEnds + 1
  /\ listening' = FALSE
  /\ interimTranscript' = <<>>
  /\ restartTimers' = IF shouldRestartRef THEN restartTimers \cup {now + RESTART_DELAY_MS}
                                          ELSE restartTimers
  /\ UNCHANGED <<now, gateVars, auxVars, ENABLE_URGENCY_PULSE, phase, segments, report, analysisError,
                 isRunningAnalysisRef, isTestTranscriptMode, cooldownSeconds, resetPending,
                 stopTimers, runVars, pulseVars, audioVars, currentSpeaker, currentSpeakerRef,
                 lastSpeechTimeRef, shouldRestartRef, speechError>>

\* the timer set by onend fires: recognition.start() (useSpeechRecognition.ts:88-94), followed
\* by the start event (:76-80) unless the stream was already running
RestartTimerFires ==
  \E t \in restartTimers :
    /\ now >= t
    /\ restartTimers' = restartTimers \ {t}
    /\ listening' = TRUE
    /\ lastSpeechTimeRef' = IF listening THEN lastSpeechTimeRef ELSE now
    /\ speechError' = IF listening THEN speechError ELSE "none"
    /\ UNCHANGED <<now, gateVars, auxVars, ENABLE_URGENCY_PULSE, phase, segments, report, analysisError,
                   isRunningAnalysisRef, isTestTranscriptMode, cooldownSeconds, resetPending,
                   stopTimers, runVars, pulseVars, audioVars, currentSpeaker, currentSpeakerRef,
                   shouldRestartRef, interimTranscript, streamEnds>>

\* the catch of startRecording (useAudioRecorder.ts:100-103)
ErrorAfterFailure == "Could not access microphone"

\* SpeechRecognitionErrorEvent.error values the platform reports
ErrorKinds == {"no-speech", "aborted", "not-allowed", "network", "audio-capture"}

\* the error state chosen by the switch of onerror (useSpeechRecognition.ts:113-123)
ErrorStateOf(error) ==
  IF error = "not-allowed" THEN "permission-denied"
  ELSE IF error = "network" THEN "network"
  ELSE "unknown"

\* a denied permission leaves the restart flag as it is
RestartAfterError_Unchanged(error, shouldRestart) == shouldRestart

\* shouldRestartRef after the switch of onerror (useSpeechRecognition.ts:113-117)
RestartAfterError(error, shouldRestart) ==
  IF error = "not-allowed" THEN FALSE ELSE shouldRestart

\* recognition.onerror (useSpeechRecognition.ts:98-124) on a stream that was started; the
\* platform delivers the end event after it
onerror(error) ==
  /\ listening
  /\ IF error \in {"no-speech", "aborted"}
       THEN UNCHANGED <<interimTranscript, speechError, shouldRestartRef>>
       ELSE /\ interimTranscript' = <<>>
            /\ speechError' = ErrorStateOf(error)
            /\ shouldRestartRef' = RestartAfterError(error, shouldRestartRef)
  /\ UNCHANGED <<now, gateVars, auxVars, ENABLE_URGENCY_PULSE, homeVars, runVars, pulseVars,
                 audioVars, currentSpeaker, currentSpeakerRef, lastSpeechTimeRef, restartTimers,
                 streamEnds>>

\* getUserMedia settles for the startRecording call of recording k; when it grants a stream
\* the recorder is created and started (useAudioRecorder.ts:47-103)
GetUserMediaSettles(k) ==
  /\ k \in getUserMediaPending
  /\ getUserMediaPending' = getUserMediaPending \ {k}
  /\ \E granted \in BOOLEAN :
       IF granted
         THEN /\ mediaRecorderRef' = k
              /\ recorderState' = [recorderState EXCEPT ![k] = "recording"]
              /\ UNCHANGED audioError
         ELSE /\ audioError' = ErrorAfterFailure
              /\ UNCHANGED <<mediaRecorderRef, recorderState>>
  /\ UNCHANGED <<now, gateVars, auxVars, ENABLE_URGENCY_PULSE, homeVars, runVars, pulseVars, speechVars,
                 audioBlob, onstopPending, enteredWith>>

\* the stop event of recorder k: mediaRecorder.onstop (useAudioRecorder.ts:72-91)
RecorderOnStop(k) ==
  /\ k \in onstopPending
  /\ onstopPending' = onstopPending \ {k}
  /\ \E nonEmpty \in BOOLEAN : audioBlob' = IF nonEmpty THEN k ELSE audioBlob
  /\ UNCHANGED <<now, gateVars, auxVars, ENABLE_URGENCY_PULSE, homeVars, runVars, pulseVars, speechVars,
                 mediaRecorderRef, recorderState, getUserMediaPending, audioError, enteredWith>>

\* ------------------------------------------------------------ Diarizer
DiarTickMs == 500
DiarMaxTime == StartTime + DiarHorizon

\* texts are sequences of words: the k-th final event says the word k, so that the order
\* of the words in a segment is the order of arrival, and 0 is a word that is not final yet
Result(transcript, isFinal) == [transcript |-> transcript, isFinal |-> isFinal]

\* the events the platform can deliver next, each the results from event.resultIndex on:
\* an interim result, a final one, a final one followed by the interim start of the next
\* utterance, and a final result without text
Events ==
  {<<Result(<<0>>, FALSE)>>,
   <<Result(<<hCount + 1>>, TRUE)>>,
   <<Result(<<hCount + 1>>, TRUE), Result(<<0>>, FALSE)>>,
   <<Result(<<>>, TRUE)>>}

\* the transcripts of the results of an event whose isFinal is wanted, joined
\* (useSpeechRecognition.ts:133-143)
RECURSIVE Joined(_, _)
Joined(results, wanted) ==
  IF results = <<>>
    THEN <<>>
    ELSE (IF Head(results).isFinal = wanted THEN Head(results).transcript ELSE <<>>)
           \o Joined(Tail(results), wanted)

\* the interim results are taken for final ones as well
FinalTranscript_WithInterim(event) == Joined(event, TRUE) \o Joined(event, FALSE)

FinalTranscript(event) == Joined(event, TRUE)

CurrentInterim(event) == Joined(event, FALSE)

Other(speaker) == IF speaker = "vet" THEN "owner" ELSE "vet"

\* a pause one millisecond too short already switches the speaker
ShouldSwitchSpeaker_AtThreshold(timeSinceLastSpeech) ==
  timeSinceLastSpeech >= SPEAKER_CHANGE_THRESHOLD

\* useSpeechRecognition.ts:150-151
ShouldSwitchSpeaker(timeSinceLastSpeech) == timeSinceLastSpeech > SPEAKER_CHANGE_THRESHOLD

\* the history of the final events: the platform has delivered the final text received
Heard(received) ==
  IF received = <<>>
    THEN UNCHANGED diarHist
    ELSE /\ hCount' = hCount + 1
         /\ hTexts' = hTexts \o received
         /\ hFirstAt' = IF hCount = 0 THEN now ELSE hFirstAt
         /\ hPrevAt' = now
         /\ hBigGaps' = hBigGaps + (IF now - hPrevAt > SPEAKER_CHANGE_THRESHOLD THEN 1 ELSE 0)
         /\ hSpk0' = IF hCount = 0 THEN currentSpeaker ELSE hSpk0
         /\ UNCHANGED <<hToggled, hStopped>>

\* a final text of the same speaker replaces what the last segment said
CommitFinal_Overwrites(prev, speaker, shouldSwitchSpeaker, finalTranscript) ==
  LET n == Len(prev)
  IN IF n > 0 /\ prev[n].speaker = speaker /\ ~shouldSwitchSpeaker
       THEN [prev EXCEPT ![n].text = finalTranscript]
       ELSE Append(prev, [speaker |-> speaker, text |-> finalTranscript, timestamp |-> now])

\* the updater given to setSegments (useSpeechRecognition.ts:163-191)
CommitFinal(prev, speaker, shouldSwitchSpeaker, finalTranscript) ==
  LET n == Len(prev)
  IN IF n > 0 /\ prev[n].speaker = speaker /\ ~shouldSwitchSpeaker
       THEN [prev EXCEPT ![n].text = @ \o finalTranscript]
       ELSE Append(prev, [speaker |-> speaker, text |-> finalTranscript, timestamp |-> now])

\* recognition.onresult (useSpeechRecognition.ts:126-195); the effect of :58-60 copies the
\* new current speaker into the ref
onresult(event) ==
  /\ listening
  /\ hCount < MaxFinals
  /\ interimTranscript' = CurrentInterim(event)
  /\ Heard(Joined(event, TRUE))
  /\ LET finalTranscript == FinalTranscript(event)
     IN IF finalTranscript = <<>>
          THEN UNCHANGED <<currentSpeaker, currentSpeakerRef, segments, lastSpeechTimeRef>>
          ELSE LET timeSinceLastSpeech == now - lastSpeechTimeRef
                   shouldSwitchSpeaker == ShouldSwitchSpeaker(timeSinceLastSpeech)
                   speaker == IF shouldSwitchSpeaker THEN Other(currentSpeakerRef)
                                                     ELSE currentSpeakerRef
               IN /\ currentSpeaker' = IF shouldSwitchSpeaker THEN speaker ELSE currentSpeaker
                  /\ currentSpeakerRef' = currentSpeaker'
                  /\ segments' = CommitFinal(segments, speaker, shouldSwitchSpeaker,
                                             finalTranscript)
                  /\ lastSpeechTimeRef' = now
  /\ UNCHANGED <<now, gateVars, ENABLE_URGENCY_PULSE, phase, listening, report, analysisError,
                 isRunningAnalysisRef, isTestTranscriptMode, cooldownSeconds, resetPending,
                 stopTimers, runVars, pulseVars, audioVars, shouldRestartRef, speechError,
                 restartTimers, streamEnds, storeVars, moreVars>>

\* the caller starts the stream: startListening() (useSpeechRecognition.ts:206-217); the
\* Diarizer is followed through one session of listening
DStartListening ==
  /\ ~listening
  /\ ~shouldRestartRef
  /\ ~hStopped
  /\ SetSpeech(startListening(SpeechNow))
  /\ hPrevAt' = now
  /\ UNCHANGED <<now, gateVars, ENABLE_URGENCY_PULSE, phase, segments, report, analysisError,
                 isRunningAnalysisRef, isTestTranscriptMode, cooldownSeconds, resetPending,
                 stopTimers, runVars, pulseVars, audioVars>>
  /\ UNCHANGED <<currentSpeaker, currentSpeakerRef, restartTimers, streamEnds, hCount, hTexts,
                 hFirstAt, hBigGaps, hSpk0, hToggled, hStopped, storeVars, moreVars>>

\* the state flips while the ref that onresult reads keeps the old speaker
toggleSpeaker_RefNotSynced ==
  /\ currentSpeaker' = Other(currentSpeaker)
  /\ currentSpeakerRef' = currentSpeakerRef
  /\ hToggled' = TRUE
  /\ UNCHANGED <<now, gateVars, ENABLE_URGENCY_PULSE, homeVars, runVars, pulseVars, audioVars,
                 lastSpeechTimeRef, shouldRestartRef, interimTranscript, speechError, restartTimers,
                 streamEnds, hCount, hTexts, hFirstAt, hPrevAt, hBigGaps, hSpk0, hStopped,
                 storeVars, moreVars>>

\* toggleSpeaker() (useSpeechRecognition.ts:230-232) and the effect of :58-60
toggleSpeaker ==
  /\ currentSpeaker' = Other(currentSpeaker)
  /\ currentSpeakerRef' = currentSpeaker'
  /\ hToggled' = TRUE
  /\ UNCHANGED <<now, gateVars, ENABLE_URGENCY_PULSE, homeVars, runVars, pulseVars, audioVars,
                 lastSpeechTimeRef, shouldRestartRef, interimTranscript, speechError, restartTimers,
                 streamEnds, hCount, hTexts, hFirstAt, hPrevAt, hBigGaps, hSpk0, hStopped,
                 storeVars, moreVars>>

\* the caller stops the stream: stopListening() (useSpeechRecognition.ts:219-228).
\* recognition.stop() lets the platform deliver what it has recognised so far and then end
\* the stream, so the handlers stay attached until DStreamStopped
DStopListening ==
  /\ shouldRestartRef
  /\ shouldRestartRef' = FALSE
  /\ hStopped' = TRUE
  /\ UNCHANGED <<now, gateVars, ENABLE_URGENCY_PULSE, homeVars, runVars, pulseVars, audioVars,
                 currentSpeaker, currentSpeakerRef, lastSpeechTimeRef, interimTranscript, speechError,
                 restartTimers, streamEnds, hCount, hTexts, hFirstAt, hPrevAt, hBigGaps, hSpk0,
                 hToggled, storeVars, moreVars>>

\* the end event of a stream that was asked to stop: recognition.onend
\* (useSpeechRecognition.ts:82-96) finds shouldRestartRef false and sets no timer
DStreamStopped ==
  /\ listening
  /\ ~shouldRestartRef
  /\ listening' = FALSE
  /\ interimTranscript' = <<>>
  /\ UNCHANGED <<now, gateVars, auxVars, ENABLE_URGENCY_PULSE, phase, segments, report,
                 analysisError, isRunningAnalysisRef, isTestTranscriptMode, cooldownSeconds,
                 resetPending, stopTimers, runVars, pulseVars, audioVars, currentSpeaker,
                 currentSpeakerRef, lastSpeechTimeRef, shouldRestartRef, speechError,
                 restartTimers, streamEnds>>

\* time passes for the Diarizer: by DiarTickMs, or to the due time of the restart timer
DTick ==
  /\ \E t \in {now + DiarTickMs} \cup restartTimers :
       /\ t > now
       /\ t <= DiarMaxTime
       /\ now' = t
  /\ UNCHANGED <<gateVars, appVars>>

NextDiar ==
  \/ DStartListening
  \/ \E event \in Events : onresult(event)
  \/ onend
  \/ RestartTimerFires
  \/ toggleSpeaker
  \/ DStopListening
  \/ DStreamStopped
  \/ DTick

\* ------------------------------------------------------------ session store
StoreTickMs == 1
StoreMaxTime == StartTime + StoreHorizon

\* SessionData without savedAt (sessionStorage.ts:14-29); null is 0, no segments is <<>>
Fields == {"segments", "audioBlob", "audioMimeType", "recordingStartTime", "report",
           "editedReport"}

\* the partial sessions the application saves, for the call number i: the value i marks
\* what that call supplies (App.tsx:141-144, 152-156, 164, 297)
Partials(i) ==
  {[segments |-> <<i>>, recordingStartTime |-> v] : v \in {0, i}}
    \cup {[audioBlob |-> i, audioMimeType |-> i, recordingStartTime |-> v] : v \in {0, i}}
    \cup {[report |-> i], [editedReport |-> i]}

\* sessionData of saveSession (sessionStorage.ts:68-76); existing is <<>> or <<a session>>
Merge(data, existing, savedAt) ==
  [segments |-> IF "segments" \in DOMAIN data THEN data.segments
                ELSE IF existing # <<>> THEN existing[1].segments ELSE <<>>,
   audioBlob |-> IF "audioBlob" \in DOMAIN data THEN data.audioBlob
                 ELSE IF existing # <<>> THEN existing[1].audioBlob ELSE 0,
   audioMimeType |-> IF "audioMimeType" \in DOMAIN data THEN data.audioMimeType
                     ELSE IF existing # <<>> THEN existing[1].audioMimeType ELSE 0,
   recordingStartTime |-> IF "recordingStartTime" \in DOMAIN data THEN data.recordingStartTime
                          ELSE IF existing # <<>> THEN existing[1].recordingStartTime ELSE 0,
   report |-> IF "report" \in DOMAIN data THEN data.report
              ELSE IF existing # <<>> THEN existing[1].report ELSE 0,
   editedReport |-> IF "editedReport" \in DOMAIN data THEN data.editedReport
                    ELSE IF existing # <<>> THEN existing[1].editedReport ELSE 0,
   savedAt |-> savedAt]

\* a stored value without its savedAt
Content(st) == IF st = <<>> THEN <<>> ELSE <<[st[1] EXCEPT !.savedAt = 0]>>

StoreFrame ==
  UNCHANGED <<gateVars, ENABLE_URGENCY_PULSE, homeVars, runVars, pulseVars, speechVars,
              audioVars, diarHist, moreVars>>

\* saveSession(data) is called: indexedDB.open is requested (sessionStorage.ts:61-63)
saveSession(data) ==
  /\ Len(ops) < MaxOps
  /\ ops' = Append(ops, [kind |-> "save", data |-> data, pc |-> "open", txn |-> 0,
                         sessionData |-> <<>>, issuedAt |-> now])
  /\ expected' = <<Merge(data, expected, 0)>>
  /\ sinceClear' = IF sinceClear = "clean" THEN "saved" ELSE sinceClear
  /\ UNCHANGED <<now, store, txnSeq>>
  /\ StoreFrame

\* clearSession() is called (sessionStorage.ts:138-140)
clearSession ==
  /\ Len(ops) < MaxOps
  /\ ops' = Append(ops, [kind |-> "clear", data |-> <<>>, pc |-> "open", txn |-> 0,
                         sessionData |-> <<>>, issuedAt |-> now])
  /\ expected' = <<>>
  /\ UNCHANGED <<now, store, txnSeq, sinceClear>>
  /\ StoreFrame

\* the open request of call i succeeds; open requests of one database are served in the
\* order they were made.  saveSession goes on to getSessionInternal, which creates a
\* readonly transaction (sessionStorage.ts:66, 104-108); clearSession creates its
\* readwrite transaction (sessionStorage.ts:143-145)
OpenDone(i) ==
  /\ ops[i].pc = "open"
  /\ \A j \in 1..(i - 1) : ops[j].pc # "open"
  /\ txnSeq' = txnSeq + 1
  /\ ops' = [ops EXCEPT ![i].pc = IF ops[i].kind = "save" THEN "read" ELSE "write",
                        ![i].txn = txnSeq']
  /\ UNCHANGED <<now, store, expected, sinceClear>>
  /\ StoreFrame

\* the get of call i succeeds: a readonly transaction runs once every readwrite
\* transaction created before it is finished.  saveSession merges and creates its
\* readwrite transaction with the put (sessionStorage.ts:66-81)
ReadDone(i) ==
  /\ ops[i].pc = "read"
  /\ \A j \in 1..Len(ops) : ops[j].pc = "write" => ops[j].txn > ops[i].txn
  /\ txnSeq' = txnSeq + 1
  /\ ops' = [ops EXCEPT ![i].pc = "write",
                        ![i].txn = txnSeq',
                        ![i].sessionData = <<Merge(ops[i].data, store, now)>>]
  /\ UNCHANGED <<now, store, expected, sinceClear>>
  /\ StoreFrame

\* the put or delete of call i succeeds and its promise resolves: a readwrite
\* transaction runs once every transaction created before it is finished
\* (sessionStorage.ts:81-90, 145-154)
WriteDone(i) ==
  /\ ops[i].pc = "write"
  /\ \A j \in 1..Len(ops) : ops[j].pc \in {"read", "write"} /\ j # i => ops[j].txn > ops[i].txn
  /\ store' = IF ops[i].kind = "save" THEN ops[i].sessionData ELSE <<>>
  /\ ops' = [ops EXCEPT ![i].pc = "done"]
  /\ sinceClear' = IF ops[i].kind = "clear" THEN "clean" ELSE sinceClear
  /\ UNCHANGED <<now, txnSeq, expected>>
  /\ StoreFrame

\* time passes for the store
STick ==
  /\ now + StoreTickMs <= StoreMaxTime
  /\ now' = now + StoreTickMs
  /\ UNCHANGED <<gateVars, appVars>>

NextStore ==
  \/ \E data \in Partials(Len(ops) + 1) : saveSession(data)
  \/ clearSession
  \/ \E i \in 1..Len(ops) : OpenDone(i)
  \/ \E i \in 1..Len(ops) : ReadDone(i)
  \/ \E i \in 1..Len(ops) : WriteDone(i)
  \/ STick

\* ------------------------------------------------------------ saved session of HomePage
\* recordings one after the other in one life of the process
MaxSessions == 2

\* In this part every segment, audio blob and report is written as the number of the
\* recording it comes from, and a call of saveSession is finished before the next event
\* (its interleavings are the subject of the store section above)
SessionFrame ==
  UNCHANGED <<now, gateVars, ENABLE_URGENCY_PULSE, listening, analysisError, isRunningAnalysisRef,
              isTestTranscriptMode, cooldownSeconds, resetPending, stopTimers, runPc, runWake,
              runSegs, nextRun, finalFetches, dupSuppressed, pulseVars, speechVars,
              mediaRecorderRef, recorderState, onstopPending, getUserMediaPending, audioError,
              enteredWith, diarHist, ops, txnSeq, expected, sinceClear, moreVars>>

\* saveSession(data) from call to resolved promise (sessionStorage.ts:61-99)
Saved(data) == store' = <<Merge(data, store, now)>>

\* what handleStartRecording does to the stored session: it does not call the store, and
\* the save effects of its render return early, the segments being empty and audio and
\* report null (App.tsx:300-309, 136-165)
SessionStart == UNCHANGED store

\* Record is pressed (App.tsx:300-309)
SessionRecord ==
  /\ phase \in {"idle", "complete"}
  /\ recordings < MaxSessions
  /\ recordings' = recordings + 1
  /\ phase' = "recording"
  /\ segments' = <<>>
  /\ report' = 0
  /\ audioBlob' = 0
  /\ SessionStart
  /\ SessionFrame

\* a final result is committed; the effect of App.tsx:136-145 saves the segments with the
\* start time of the running recorder
SessionFinal ==
  /\ phase = "recording"
  /\ Len(segments) < MaxSegs
  /\ segments' = Append(segments, recordings)
  /\ Saved([segments |-> segments', recordingStartTime |-> recordings])
  /\ UNCHANGED <<phase, report, audioBlob, recordings>>
  /\ SessionFrame

\* Stop is pressed (App.tsx:620-624); no save effect has a changed dependency
SessionStop ==
  /\ phase = "recording"
  /\ phase' = "processing"
  /\ UNCHANGED <<segments, report, audioBlob, recordings, store>>
  /\ SessionFrame

\* the recorder hands over its blob (useAudioRecorder.ts:70-86); the effect of
\* App.tsx:147-157 saves it
SessionAudio ==
  /\ phase \in {"processing", "complete"}
  /\ audioBlob = 0
  /\ audioBlob' = recordings
  /\ Saved([audioBlob |-> recordings, audioMimeType |-> recordings,
            recordingStartTime |-> recordings])
  /\ UNCHANGED <<phase, segments, report, recordings>>
  /\ SessionFrame

\* runAnalysis ends (App.tsx:218-221, 236-251); with a report the effect of
\* App.tsx:159-165 saves it
SessionAnalysed ==
  /\ phase = "processing"
  /\ phase' = "complete"
  /\ \E success \in BOOLEAN :
       IF success /\ segments # <<>>
         THEN report' = recordings /\ Saved([report |-> recordings])
         ELSE UNCHANGED <<report, store>>
  /\ UNCHANGED <<segments, audioBlob, recordings>>
  /\ SessionFrame

\* the report is edited: handleReportEdit (App.tsx:295-298)
SessionEdit ==
  /\ phase = "complete"
  /\ report # 0
  /\ Saved([editedReport |-> report])
  /\ UNCHANGED <<phase, segments, report, audioBlob, recordings>>
  /\ SessionFrame

\* the button is pressed in the complete phase (RecordButton.tsx:155-157): handleReset
\* (App.tsx:256-271)
SessionReset ==
  /\ phase = "complete"
  /\ store' = <<>>
  /\ phase' = "idle"
  /\ segments' = <<>>
  /\ report' = 0
  /\ audioBlob' = 0
  /\ UNCHANGED recordings
  /\ SessionFrame

NextSession ==
  \/ SessionRecord
  \/ SessionFinal
  \/ SessionStop
  \/ SessionAudio
  \/ SessionAnalysed
  \/ SessionEdit
  \/ SessionReset

\* ------------------------------------------------------------ TimeSync
\* Times are in milliseconds here: relativeTime and the playback position are both 1000
\* times the seconds of the code, which keeps every comparison.

\* calculateRelativeTimes(segments, recordingStartTime) (urgency.ts:129-137); segments is a
\* sequence of capture timestamps
calculateRelativeTimes(segs, recordingStartTime) ==
  [i \in DOMAIN segs |-> [timestamp |-> segs[i], has |-> TRUE,
                          relativeTime |-> segs[i] - recordingStartTime]]

\* segmentsWithTimes (App.tsx:117-120): without a recording start the segments carry no
\* relativeTime
SegmentsWithTimes(segs, recordingStartTime) ==
  IF recordingStartTime = 0
    THEN [i \in DOMAIN segs |-> [timestamp |-> segs[i], has |-> FALSE, relativeTime |-> 0]]
    ELSE calculateRelativeTimes(segs, recordingStartTime)

\* the search that goes through the segments from the first one on
RECURSIVE ScanFromFront(_, _, _)
ScanFromFront(segs, currentTime, i) ==
  IF i >= Len(segs) THEN -1
  ELSE IF segs[i + 1].has /\ segs[i + 1].relativeTime <= currentTime THEN i
  ELSE ScanFromFront(segs, currentTime, i + 1)

findActiveSegment_FromFront(segs, currentTime) == ScanFromFront(segs, currentTime, 0)

\* the search with its comparison turned round
RECURSIVE ScanFlipped(_, _, _)
ScanFlipped(segs, currentTime, i) ==
  IF i < 0 THEN -1
  ELSE IF segs[i + 1].has /\ segs[i + 1].relativeTime >= currentTime THEN i
  ELSE ScanFlipped(segs, currentTime, i - 1)

findActiveSegment_Flipped(segs, currentTime) == ScanFlipped(segs, currentTime, Len(segs) - 1)

\* the loop of findActiveSegment from index i down (urgency.ts:147-152); indices count
\* from 0 as in the code
RECURSIVE ScanDown(_, _, _)
ScanDown(segs, currentTime, i) ==
  IF i < 0 THEN -1
  ELSE IF segs[i + 1].has /\ segs[i + 1].relativeTime <= currentTime THEN i
  ELSE ScanDown(segs, currentTime, i - 1)

\* findActiveSegment(segments, currentTime) (urgency.ts:142-154)
findActiveSegment(segs, currentTime) == ScanDown(segs, currentTime, Len(segs) - 1)

\* capture timestamps of a transcript: Date.now() at each commit, so in non-decreasing order
Timestamps ==
  {ts \in UNION {[1..n -> 0..MaxOffset] : n \in 0..MaxSyncSegs} :
     \A i \in 1..(Len(ts) - 1) : ts[i] <= ts[i + 1]}

\* a recording with audio is shown; the recording start is unknown (0) or 1, so that a
\* segment committed before the audio started has a negative relativeTime
InitSync ==
  /\ InitRateLimiter
  /\ InitHome
  /\ ENABLE_URGENCY_PULSE = FALSE
  /\ store = <<>>
  /\ sessionRestored = TRUE
  /\ \E ts \in Timestamps, recordingStartTime \in {0, 1} :
       segmentsWithTimes = SegmentsWithTimes(ts, recordingStartTime)
  /\ audioCurrentTime = 0
  /\ activeSegmentIndex = findActiveSegment(segmentsWithTimes, audioCurrentTime)
  /\ audioSeekTimeRef = <<>>
  /\ seekTime = <<>>
  /\ audioPosition = 0
  /\ hSeekRequests = 0
  /\ hSeekApplied = 0
  /\ InitNoPreview

\* the setter of audio.currentTime: the media element keeps the position inside the audio
SetCurrentTime(t) == IF t < 0 THEN 0 ELSE t

\* the request stays in the ref after it was applied
onSeeked_KeepsRequest(ref) == ref

\* the onSeeked callback HomePage passes to AudioPlayer (App.tsx:455-457)
onSeeked(ref) == <<>>

\* setAudioCurrentTime(time) while the audio is at position and the ref holds ref.  A value
\* equal to the state renders nothing.  Otherwise HomePage renders: the active segment is
\* computed again (App.tsx:123-126), AudioPlayer gets the ref's value as seekTime
\* (App.tsx:450-458) and, onSeeked being a new function at every render, its seek effect
\* runs (AudioPlayer.tsx:60-74)
SetAudioCurrentTime(time, position, ref) ==
  IF time = audioCurrentTime
    THEN /\ audioPosition' = position
         /\ audioSeekTimeRef' = ref
         /\ UNCHANGED <<audioCurrentTime, activeSegmentIndex, seekTime, hSeekApplied>>
    ELSE /\ audioCurrentTime' = time
         /\ activeSegmentIndex' = findActiveSegment(segmentsWithTimes, time)
         /\ seekTime' = ref
         /\ IF ref # <<>>
              THEN /\ audioPosition' = SetCurrentTime(ref[1])
                   /\ audioSeekTimeRef' = onSeeked(ref)
                   /\ hSeekApplied' = hSeekApplied + 1
              ELSE /\ audioPosition' = position
                   /\ audioSeekTimeRef' = ref
                   /\ UNCHANGED hSeekApplied

\* the audio player reports its position t, while playing or after a seek with its slider
\* (AudioPlayer.tsx:31-35, 88-95, App.tsx:278-284)
TimeUpdate(t) ==
  /\ SetAudioCurrentTime(t, t, audioSeekTimeRef)
  /\ UNCHANGED <<now, gateVars, ENABLE_URGENCY_PULSE, homeVars, runVars, pulseVars, speechVars,
                 audioVars, diarHist, storeVars, gateHist, analysisHist, restoreVars, editVars,
                 segmentsWithTimes, hSeekRequests>>

\* a click on segment i of the transcript, which can be clicked when its relativeTime is
\* known (CollapsibleTranscript.tsx:61-74): handleSegmentClick (App.tsx:287-293)
SegmentClick(i) ==
  /\ segmentsWithTimes[i].has
  /\ hSeekRequests < MaxSeeks
  /\ hSeekRequests' = hSeekRequests + 1
  /\ LET relativeTime == segmentsWithTimes[i].relativeTime
     IN SetAudioCurrentTime(relativeTime, audioPosition, <<relativeTime>>)
  /\ UNCHANGED <<now, gateVars, ENABLE_URGENCY_PULSE, homeVars, runVars, pulseVars, speechVars,
                 audioVars, diarHist, storeVars, gateHist, analysisHist, restoreVars, editVars,
                 segmentsWithTimes>>

NextSync ==
  \/ \E t \in 0..MaxOffset : TimeUpdate(t)
  \/ \E i \in 1..Len(segmentsWithTimes) : SegmentClick(i)

\* types/transcript: the segment that is highlighted during playback
SpecSync == InitSync /\ [][NextSync]_vars

\* ------------------------------------------------------------ report editing

\* most items a list field of a report holds
MaxItems == 2

\* A JSON value is written as the function from the paths of its leaves to the leaves.  A
\* leaf carries what typeof and Array.isArray say of it and its content as strings; an
\* object is the set of the paths that start with its own
Leaf(kind, items) == [kind |-> kind, items |-> items]

\* the value of a property that was set to undefined
Undefined == Leaf("undefined", <<>>)

IsPrefix(p, q) == Len(p) <= Len(q) /\ SubSeq(q, 1, Len(p)) = p

\* what an editable text field can hold (EditableField.tsx:36-41)
FieldTexts == {Leaf("string", <<t>>) : t \in {"", "a"}}

\* what an editable list can hold: blank items are filtered out (EditableList, part_006:21-27)
FieldLists == {Leaf("array", xs) : xs \in UNION {[1..n -> {"a"}] : n \in 0..MaxItems}}

\* confidence.note of a field of a report: the model's note, or undefined when the model
\* gave none (groq.ts:98)
Notes == {Undefined, Leaf("string", <<"n">>)}

\* the object normalizeConfidentField returns (groq.ts:73-112), at path of the report
normalizeConfidentField(path, value, note) ==
  (path \o <<"value">> :> value)
    @@ (path \o <<"confidence", "score">> :> Leaf("number", <<"0.9">>))
    @@ (path \o <<"confidence", "level">> :> Leaf("string", <<"high">>))
    @@ (path \o <<"confidence", "note">> :> note)

\* the reports transformToReport builds (groq.ts:118-200), with one field of each place
\* and type: a text inside a group, a text and a list at the top
Reports ==
  {normalizeConfidentField(<<"patient", "name">>, name, n1)
     @@ normalizeConfidentField(<<"chiefComplaint">>, complaint, n2)
     @@ normalizeConfidentField(<<"symptoms">>, symptoms, n3) :
       name \in FieldTexts, complaint \in FieldTexts, symptoms \in FieldLists,
       n1 \in Notes, n2 \in Notes, n3 \in Notes}

\* the editors ReportPreview renders over these fields (part_007:162-166, 227-229, 254-256)
EditableFields ==
  {[path |-> <<"patient", "name">>, values |-> FieldTexts],
   [path |-> <<"chiefComplaint">>, values |-> FieldTexts],
   [path |-> <<"symptoms">>, values |-> FieldLists]}

\* JSON.parse(JSON.stringify(obj)): a property whose value is undefined is not written
deepClone(obj) == [p \in {q \in DOMAIN obj : obj[q].kind # "undefined"} |-> obj[p]]

\* the value at path, with its own paths; the empty function when there is none
getNestedValue(obj, path) ==
  [q \in {SubSeq(p, Len(path) + 1, Len(p)) : p \in {r \in DOMAIN obj : IsPrefix(path, r)}}
     |-> obj[path \o q]]

\* key in target, false of a leaf
In(key, target) == \E q \in DOMAIN target : Len(q) >= 1 /\ q[1] = key

\* the property at path is set to the leaf value: what path held before is gone.
\* setNestedValue makes the objects on the way that are missing, which this writing of an
\* object does by itself
setNestedValue(obj, path, value) ==
  [p \in {q \in DOMAIN obj : ~IsPrefix(path, q)} \cup {path}
     |-> IF p = path THEN value ELSE obj[p]]

\* the field itself is replaced by the value
updateField_PlainValue(prev, fieldPath, value) ==
  setNestedValue(deepClone(prev), fieldPath, value)

\* the state update of updateField (useEditableReport.ts:39-54)
updateField(prev, fieldPath, value) ==
  LET newReport == deepClone(prev)
      target == getNestedValue(newReport, fieldPath)
  IN IF In("value", target) /\ In("confidence", target)
       THEN setNestedValue(newReport, fieldPath \o <<"value">>, value)
       ELSE setNestedValue(newReport, fieldPath, value)

\* the value isChanged compares with (useEditableReport.ts:57-64)
OriginalValue(fieldPath) ==
  LET originalTarget == getNestedValue(originalReport, fieldPath)
  IN IF In("value", originalTarget)
       THEN getNestedValue(originalTarget, <<"value">>)
       ELSE originalTarget

\* the user saves value in the editor of field: the editors call onSave only with a value
\* that differs from the one shown (EditableField.tsx:36-41, part_006:21-27)
EditField(field, value) ==
  /\ DOMAIN originalReport # {}
  /\ editedReport[field.path \o <<"value">>] # value
  /\ editedReport' = updateField(editedReport, field.path, value)
  /\ editedFields' = IF (<<>> :> value) # OriginalValue(field.path)
                       THEN editedFields \cup {field.path}
                       ELSE editedFields \ {field.path}
  /\ UNCHANGED <<now, gateVars, ENABLE_URGENCY_PULSE, homeVars, runVars, pulseVars, speechVars,
                 audioVars, diarHist, storeVars, gateHist, analysisHist, restoreVars, playVars,
                 originalReport>>

\* "Reset edits", shown while hasEdits (part_007:137-144, useEditableReport.ts:81-86)
resetEdits ==
  /\ editedFields # {}
  /\ editedReport' = originalReport
  /\ editedFields' = {}
  /\ UNCHANGED <<now, gateVars, ENABLE_URGENCY_PULSE, homeVars, runVars, pulseVars, speechVars,
                 audioVars, diarHist, storeVars, gateHist, analysisHist, restoreVars, playVars,
                 originalReport>>

\* a report is shown: ReportPreview is mounted with it (useEditableReport.ts:28-30)
InitEdit ==
  /\ InitRateLimiter
  /\ InitHome
  /\ ENABLE_URGENCY_PULSE = FALSE
  /\ store = <<>>
  /\ sessionRestored = TRUE
  /\ InitPlayer
  /\ originalReport \in Reports
  /\ editedReport = originalReport
  /\ editedFields = {}

NextEdit ==
  \/ \E field \in EditableFields : \E value \in field.values : EditField(field, value)
  \/ resetEdits

\* useEditableReport: a report under edit
SpecEdit == InitEdit /\ [][NextEdit]_vars

\* ------------------------------------------------------------ live assessment
\* part_002:34 compareUrgency (types/urgency.ts:34-39)
compareUrgency(a, b) == b - a

\* the interval callback: analyzeUrgency and detectUrgency up to the request
\* (part_002:112-117, 48-68, urgencyDetection.ts:71-106)
IntervalFires ==
  /\ analysisIntervalRef
  /\ now >= intervalDue
  /\ now + PULSE_INTERVAL_MS <= AppMaxTime
  /\ intervalDue' = now + PULSE_INTERVAL_MS
  /\ \E online \in BOOLEAN, hasKey \in BOOLEAN :
       IF /\ Len(segments) > 0
          /\ ~isAnalyzingRef
          /\ ~(now - lastAnalysisTimeRef < PULSE_MIN_GAP_MS)
          /\ online
          /\ hasKey
         THEN /\ isAnalyzingRef' = TRUE
              /\ abortControllerRef' = TRUE
              /\ livePc' = "fetch"
              /\ liveSignalAborted' = FALSE
         ELSE UNCHANGED <<isAnalyzingRef, abortControllerRef, livePc, liveSignalAborted>>
  /\ UNCHANGED <<now, gateVars, auxVars, ENABLE_URGENCY_PULSE, homeVars, runVars, urgency,
                 lastAnalysisTimeRef, analysisIntervalRef, speechVars, audioVars>>

\* urgency scores returned by detectUrgency; 0 stands for null
Assessments == {0, 2, 4}

\* the request of detectUrgency settles; a = 0 stands for a null assessment
\* (urgencyDetection.ts:108-128, part_002:68-91)
LiveFetchReturns ==
  /\ livePc = "fetch"
  /\ \E a \in Assessments :
       IF a > 0
         THEN /\ urgency' = IF urgency = 0 \/ compareUrgency(a, urgency) > 0 THEN a ELSE urgency
              /\ lastAnalysisTimeRef' = now
         ELSE UNCHANGED <<urgency, lastAnalysisTimeRef>>
  /\ isAnalyzingRef' = FALSE
  /\ abortControllerRef' = FALSE
  /\ livePc' = "idle"
  /\ liveSignalAborted' = FALSE
  /\ UNCHANGED <<now, gateVars, auxVars, ENABLE_URGENCY_PULSE, homeVars, runVars, analysisIntervalRef,
                 intervalDue, speechVars, audioVars>>

\* ------------------------------------------------------------ specifications
\* the application as built: ENABLE_URGENCY_PULSE = false (App.tsx:57)
Init == InitRateLimiter /\ InitHome /\ InitFresh /\ ENABLE_URGENCY_PULSE = FALSE

Next ==
  \/ ClickStart
  \/ FinalResult
  \/ ClickStop
  \/ StopTimerFires
  \/ ClickAnalyze
  \/ ClickReset
  \/ ResetContinues
  \/ ClickLoadTest
  \/ \E r \in Callers : RunDelayDone(r)
  \/ \E r \in Callers : FetchReturns(r)
  \/ Tick

Spec == Init /\ [][Next]_vars

\* timers fire, requests settle and continuations run; the user need not act
Fairness ==
  /\ WF_vars(Tick)
  /\ WF_vars(StopTimerFires)
  /\ WF_vars(ResetContinues)
  /\ \A r \in Callers : WF_vars(RunDelayDone(r))
  /\ \A r \in Callers : WF_vars(FetchReturns(r))

FairSpec == Spec /\ Fairness

\* timers fire and continuations run, but the endpoint need not answer a request
FairnessNoResponse ==
  /\ WF_vars(Tick)
  /\ WF_vars(StopTimerFires)
  /\ WF_vars(ResetContinues)
  /\ \A r \in Callers : WF_vars(RunDelayDone(r))

FairSpecNoResponse == Spec /\ FairnessNoResponse

\* the application with a recognizer that returns its last result after it was asked
\* to stop
NextStop == Next \/ LateFinalResult

SpecStop == Init /\ [][NextStop]_vars

\* HomePage and the session it keeps in the store
SpecSession == Init /\ [][NextSession]_vars

\* the application with the live-assessment feature switched on
InitPulse == InitRateLimiter /\ InitHome /\ InitFresh /\ ENABLE_URGENCY_PULSE = TRUE

NextPulse ==
  \/ ClickStart
  \/ FinalResult
  \/ ClickStop
  \/ StopTimerFires
  \/ ClickAnalyze
  \/ ClickReset
  \/ ResetContinues
  \/ ClickLoadTest
  \/ \E r \in Callers : RunDelayDone(r)
  \/ \E r \in Callers : FetchReturns(r)
  \/ IntervalFires
  \/ LiveFetchReturns
  \/ Tick

SpecPulse == InitPulse /\ [][NextPulse]_vars

\* The first recording of HomePage at the moment its first live assessment, of one of
\* the scores above, has returned PULSE_INTERVAL_MS after Record was pressed: the state
\* SpecPulse reaches by ClickStart, FinalResult, Tick, IntervalFires, LiveFetchReturns,
\* with the clock read from that moment on
InitUrgency ==
  /\ InitRateLimiter
  /\ InitFresh
  /\ ENABLE_URGENCY_PULSE = TRUE
  /\ phase = "recording"
  /\ segments = <<1>>
  /\ listening = TRUE
  /\ report = 0
  /\ analysisError = "none"
  /\ isRunningAnalysisRef = FALSE
  /\ isTestTranscriptMode = FALSE
  /\ cooldownSeconds = 0
  /\ resetPending = FALSE
  /\ stopTimers = {}
  /\ runPc = [r \in Callers |-> "none"]
  /\ runWake = [r \in Callers |-> 0]
  /\ runSegs = [r \in Callers |-> <<>>]
  /\ nextRun = 1
  /\ finalFetches = 0
  /\ dupSuppressed = FALSE
  /\ recordings = 1
  /\ urgency \in Assessments \ {0}
  /\ isAnalyzingRef = FALSE
  /\ lastAnalysisTimeRef = now
  /\ abortControllerRef = FALSE
  /\ analysisIntervalRef = TRUE
  /\ intervalDue = now + PULSE_INTERVAL_MS
  /\ livePc = "idle"
  /\ liveSignalAborted = FALSE
  /\ currentSpeaker = "owner"
  /\ currentSpeakerRef = "owner"
  /\ lastSpeechTimeRef = now - PULSE_INTERVAL_MS
  /\ shouldRestartRef = TRUE
  /\ interimTranscript = <<>>
  /\ speechError = "none"
  /\ restartTimers = {}
  /\ streamEnds = 0
  /\ audioBlob = 0
  /\ mediaRecorderRef = 0
  /\ recorderState = [k \in 1..MaxRecordings |-> "none"]
  /\ onstopPending = {}
  /\ getUserMediaPending = {1}
  /\ audioError = "none"
  /\ enteredWith = {}
  /\ hCount = 0
  /\ hTexts = <<>>
  /\ hFirstAt = 0
  /\ hPrevAt = StartTime
  /\ hBigGaps = 0
  /\ hSpk0 = "owner"
  /\ hToggled = FALSE
  /\ hStopped = FALSE
  /\ ops = <<>>
  /\ txnSeq = 0
  /\ expected = <<>>
  /\ sinceClear = "none"
  /\ cancelled = {}
  /\ userStarts = 0
  /\ throttledAt = 0

\* that recording from there to the end of its analysis
NextUrgency ==
  \/ FinalResult
  \/ ClickStop
  \/ StopTimerFires
  \/ \E r \in Callers : RunDelayDone(r)
  \/ \E r \in Callers : FetchReturns(r)
  \/ IntervalFires
  \/ LiveFetchReturns
  \/ Tick

SpecUrgency == InitUrgency /\ [][NextUrgency]_vars

\* the application together with the events of its capture streams
NextCapture ==
  \/ Next
  \/ onend
  \/ RestartTimerFires
  \/ \E k \in 1..MaxRecordings : GetUserMediaSettles(k)
  \/ \E k \in 1..MaxRecordings : RecorderOnStop(k)

SpecCapture == Init /\ [][NextCapture]_vars

\* capture failures: a recording is started and stopped while the platform reports errors
\* of the recognition stream and refuses or grants the microphone
NextMic ==
  \/ ClickStart
  \/ ClickStop
  \/ \E error \in ErrorKinds : onerror(error)
  \/ onend
  \/ RestartTimerFires
  \/ \E k \in 1..MaxRecordings : GetUserMediaSettles(k)
  \/ \E k \in 1..MaxRecordings : RecorderOnStop(k)
  \/ Tick

SpecMic == Init /\ [][NextMic]_vars

\* sessions a previous life of the process can have left in the store
StoredSessions ==
  {<<[segments |-> segs, audioBlob |-> 0, audioMimeType |-> 0, recordingStartTime |-> 0,
      report |-> rp, editedReport |-> ed, savedAt |-> 1]>> :
     segs \in {<<>>, MockTranscript}, rp \in {0, 1}, ed \in {0, 2}}

\* the process starts over a store that may hold a session; no effect has run yet
InitRestart ==
  /\ InitRateLimiter
  /\ InitHome
  /\ ENABLE_URGENCY_PULSE = FALSE
  /\ InitPlayer
  /\ InitNoPreview
  /\ sessionRestored = FALSE
  /\ store \in {<<>>} \cup {st \in StoredSessions :
                               /\ st[1].segments # <<>> \/ st[1].report # 0
                               /\ st[1].editedReport # 0 => st[1].report # 0}

\* the effect of the first render (App.tsx:128-134): marks the session as restored
\* without reading the store
Mount ==
  /\ ~sessionRestored
  /\ sessionRestored' = TRUE
  /\ UNCHANGED <<now, gateVars, ENABLE_URGENCY_PULSE, homeVars, runVars, pulseVars, speechVars,
                 audioVars, diarHist, storeVars, gateHist, analysisHist, playVars, editVars>>

NextRestart == Mount \/ Next

SpecRestart == InitRestart /\ [][NextRestart]_vars

\* the hook of useSpeechRecognition on its own, driven by its caller and by the platform
SpecDiar == Init /\ [][NextDiar]_vars

\* services/sessionStorage.ts on its own, called as the application calls it
SpecStore == Init /\ [][NextStore]_vars

\* in the application nothing stamps lastCallTime or sets a cooldown, so no caller of the
\* gate ever sleeps on a timer of rateLimiter.ts
NoGateTimerInApp == \A c \in Callers : gpc[c] \notin {"sleepCooldown", "sleepInterval"}

TypeOK ==
  /\ phase \in {"idle", "recording", "processing", "complete"}
  /\ report \in 0..NumCallers
  /\ urgency \in 0..5
  /\ nextRun \in 1..(NumCallers + 1)
  /\ now \in StartTime..MaxTime

\* C1 (as claimed): at most one caller holds the lock at any instant
SingleFlight == Cardinality(Holders) <= 1

\* C5 (as claimed): of two concurrent acquires only one is granted; the other is not
\* granted while the first has not called release()
GrantOnlyWhenFree ==
  [][\A c \in Callers :
       (gpc[c] # "holding" /\ gpc'[c] = "holding")
         => \A d \in Callers \ {c} : gpc[d] # "holding"]_vars

\* C6: an acquire issued inside a cooldown window is not granted before that window has passed
CooldownRespected ==
  \A c \in Callers : (gpc[c] = "holding" /\ cdAtCall[c] > 0) => now >= cdAtCall[c]

\* C6 witness: a caller that issued its acquire inside a cooldown has been granted the lock
CooldownRespectedWitness ==
  \E c \in Callers : gpc[c] = "holding" /\ cdAtCall[c] > 0

\* C7 (as claimed): no acquire is granted less than MIN_INTERVAL after the previous completion
IntervalFromCompletion ==
  [][\A c \in Callers :
       (gpc[c] # "holding" /\ gpc'[c] = "holding")
         => now' - lastCallTime' >= MIN_INTERVAL_MS]_vars

\* ------------------------------------------------------------ application claims
PendingRuns == {r \in Callers : runPc[r] \in {"delay", "gate", "fetch"}}

LiveCaller == 0

\* callers that have a request to the analysis endpoint in flight
FetchesInFlight ==
  {r \in Callers : runPc[r] = "fetch"} \cup (IF livePc = "fetch" THEN {LiveCaller} ELSE {})

\* C2 (as claimed): every entry into Processing is eventually followed by Complete
ProcessingLeadsToComplete == (phase = "processing") ~> (phase = "complete")

\* C3 (as claimed): once the call of a run has ended, the run no longer holds the lock
LockReleasedAfterCall == \A r \in Callers : runPc[r] = "done" => gpc[r] # "holding"

\* C4: a runAnalysis invocation made while a run is pending starts nothing: at most one run
\* is pending, it has at most one request in flight, and no more requests have been sent
\* than runs have passed the guard
OneRunOneCall ==
  /\ Cardinality(PendingRuns) <= 1
  /\ Cardinality({r \in Callers : runPc[r] = "fetch"}) <= 1
  /\ finalFetches <= nextRun - 1

\* C4 witness: runAnalysis was invoked again while the request of the pending run is in flight
OneRunOneCallWitness ==
  /\ dupSuppressed
  /\ \E r \in Callers : runPc[r] = "fetch"
  /\ finalFetches = 1

ThrottledLeavesCooldown ==
  [][(\E r \in Callers : runPc[r] = "fetch" /\ runPc'[r] = "done"
                          /\ analysisError' = ErrorOf("429"))
       => /\ phase' = "complete"
          /\ analysisError' # "none"
          /\ CooldownRemaining(cooldownUntil', now') > 0]_vars

StreamsStoppedAfterStop ==
  phase \in {"processing", "complete"} => ~listening /\ ~Capturing

\* C20 (as claimed): a request that has been sent ends, with or without a response
RequestEndsWithoutResponse ==
  \A r \in Callers : (runPc[r] = "fetch") ~> (runPc[r] = "done")

FlipAtLongGap ==
  [][(hCount >= 1 /\ hCount' = hCount + 1)
       => IF now - hPrevAt > SPEAKER_CHANGE_THRESHOLD
            THEN /\ currentSpeaker' = Other(currentSpeaker)
                 /\ Len(segments') = Len(segments) + 1
                 /\ segments'[Len(segments')].speaker = currentSpeaker'
            ELSE currentSpeaker' = currentSpeaker]_vars

\* C14 (as claimed): also after a restart of the stream, the time from which the gap of the
\* next final event is measured is the arrival time of the previous final event
RestartKeepsLastFinalAt ==
  (shouldRestartRef /\ hCount >= 1) => lastSpeechTimeRef = hPrevAt

\* C15 (as claimed): a save that completes changes only the fields it supplied, and writes a
\* savedAt that is not older than the call
SaveChangesOnlySupplied ==
  [][\A i \in 1..Len(ops) :
       (Len(ops') = Len(ops) /\ ops[i].kind = "save" /\ ops[i].pc = "write"
          /\ ops'[i].pc = "done")
         => /\ store' # <<>>
            /\ store'[1].savedAt >= ops[i].issuedAt
            /\ \A f \in Fields :
                 store'[1][f] = IF f \in DOMAIN ops[i].data THEN ops[i].data[f]
                                ELSE IF store # <<>> THEN store[1][f]
                                ELSE IF f = "segments" THEN <<>> ELSE 0]_vars

\* C16 (as claimed): once every issued save has completed (no clearSession was called), the
\* stored session is the one that results from applying the saves one after the other in
\* the order of issue
SavesInIssueOrder ==
  (\A i \in 1..Len(ops) : ops[i].kind = "save" /\ ops[i].pc = "done") => Content(store) = expected

\* C17 (as claimed): after a clearSession has finished, and until the next save is issued,
\* the store holds no session
ClearedUntilNextSave ==
  sinceClear = "clean" => store = <<>>

\* C21 (as claimed): a caller that was cancelled while it waited in the gate is never
\* granted the lock
CancelledNeverGranted ==
  \A c \in cancelled : gpc[c] # "holding"

\* C22 (as claimed): every analysis run was asked for by the user, and for the length of the
\* cooldown after a 429 response the Analyze Transcript action is not available
NoRetryInCooldown ==
  /\ nextRun - 1 <= userStarts
  /\ (throttledAt # 0 /\ now < throttledAt + DEFAULT_COOLDOWN_MS)
       => ~(phase = "idle" /\ Len(segments) > 0 /\ cooldownSeconds = 0)

\* C23: when the request of a final analysis settles, the run ends in the completion
\* handler: the phase is Complete and either the report of that run is set or an error
\* message is populated
EveryCallEndsTyped ==
  [][\A r \in Callers :
       (runPc[r] = "fetch" /\ runPc'[r] # "fetch")
         => /\ runPc'[r] = "done"
            /\ phase' = "complete"
            /\ \/ report' = r
               \/ analysisError' \notin {"none", ""}]_vars

\* C23 witness: a run whose response could not be parsed has ended with that message
EveryCallEndsTypedWitness ==
  /\ \E r \in Callers : runPc[r] = "done"
  /\ phase = "complete"
  /\ report = 0
  /\ analysisError = ErrorOf("unparsable")

\* C24 (as claimed): the effect that runs at process start over a stored session with a
\* report leaves the phase Complete, with the stored report (or its edited version) and
\* the stored segments restored
RestoredAtStart ==
  [][(~sessionRestored /\ sessionRestored' /\ store # <<>> /\ store[1].report # 0)
       => /\ phase' = "complete"
          /\ report' \in {store[1].report, store[1].editedReport} \ {0}
          /\ segments' = store[1].segments]_vars

\* C25 (as claimed): while the fixture is loaded (test transcript mode, which only Start and
\* Reset leave) the segments are the fixture, and an analysis result that arrives is the
\* result of a run over the fixture
LoadFixtureIsFullReset ==
  [][/\ isTestTranscriptMode' => segments' = MockTranscript
     /\ \A r \in Callers :
          (isTestTranscriptMode /\ runPc[r] = "fetch" /\ runPc'[r] = "done")
            => runSegs[r] = MockTranscript]_vars

\* the indices (from 0) of the segments whose relativeTime is known and at most t
Qualifying(t) ==
  {i \in 0..(Len(segmentsWithTimes) - 1) :
     segmentsWithTimes[i + 1].has /\ segmentsWithTimes[i + 1].relativeTime <= t}

\* C26: the active segment is the greatest qualifying index, and -1 when none qualifies
ActiveIsGreatestQualifying ==
  IF Qualifying(audioCurrentTime) = {}
    THEN activeSegmentIndex = -1
    ELSE /\ activeSegmentIndex \in Qualifying(audioCurrentTime)
         /\ \A i \in Qualifying(audioCurrentTime) : i <= activeSegmentIndex

\* C26 witness: two segments qualify and a third one starts later; the second is active
ActiveIsGreatestQualifyingWitness ==
  /\ Len(segmentsWithTimes) = 3
  /\ Qualifying(audioCurrentTime) = {0, 1}
  /\ activeSegmentIndex = 1

\* C27: for the same segments, a later playback position never has an earlier active segment
ActiveIsMonotonic ==
  [][(segmentsWithTimes' = segmentsWithTimes /\ audioCurrentTime <= audioCurrentTime')
       => activeSegmentIndex <= activeSegmentIndex']_vars

\* C27 witness: playback has moved on and the active segment with it
ActiveIsMonotonicWitness ==
  /\ audioCurrentTime = MaxOffset
  /\ activeSegmentIndex = 2
  /\ segmentsWithTimes[1].relativeTime < segmentsWithTimes[3].relativeTime

\* the texts of the segments, joined in the order of the list
RECURSIVE AllTexts(_)
AllTexts(segs) == IF segs = <<>> THEN <<>> ELSE Head(segs).text \o AllTexts(Tail(segs))

\* C28: an event without final text changes the preview and nothing of the committed
\* segments, the current speaker or the time the next gap is measured from; with or without
\* final text, the preview becomes the interim text of the event
InterimOnlyPreview ==
  [][(interimTranscript' # interimTranscript /\ hCount' = hCount)
       => /\ segments' = segments
          /\ currentSpeaker' = currentSpeaker
          /\ lastSpeechTimeRef' = lastSpeechTimeRef]_vars

\* C28 witness: a preview is shown after two final events were committed, and the segments
\* hold the final words only
InterimOnlyPreviewWitness ==
  /\ interimTranscript # <<>>
  /\ hCount = 2
  /\ AllTexts(segments) = <<1, 2>>

\* C29: toggleSpeaker flips the current speaker and leaves the segments alone, and a final
\* event that arrives at most 1500 ms after the previous final event is attributed to the
\* speaker that was current when it arrived
ToggleAffectsNextFinal ==
  [][/\ (currentSpeaker' # currentSpeaker /\ hCount' = hCount)
          => (segments' = segments /\ currentSpeaker' = Other(currentSpeaker))
     /\ (hCount >= 1 /\ hCount' = hCount + 1 /\ now - hPrevAt <= SPEAKER_CHANGE_THRESHOLD)
          => /\ segments'[Len(segments')].speaker = currentSpeaker
             /\ currentSpeaker' = currentSpeaker
             /\ \A i \in 1..(Len(segments) - 1) : segments'[i] = segments[i]]_vars

\* C29 witness: without any long gap there are two segments of different speakers, so the
\* second one began after a switch by hand
ToggleAffectsNextFinalWitness ==
  /\ hToggled
  /\ hBigGaps = 0
  /\ hCount = 2
  /\ Len(segments) = 2
  /\ segments[2].speaker # segments[1].speaker
  /\ segments[2].speaker = currentSpeaker

\* C30: once the stream has been stopped and has ended, the segments hold every final text
\* that was received, in the order of arrival
StoppedKeepsAllFinals ==
  (hStopped /\ ~listening) => AllTexts(segments) = hTexts

\* C30 witness: the stream was stopped and has ended, no restart is pending, and the three
\* final texts that were received are in the segments
StoppedKeepsAllFinalsWitness ==
  /\ hStopped
  /\ ~listening
  /\ restartTimers = {}
  /\ streamEnds >= 1
  /\ hCount = 3
  /\ AllTexts(segments) = <<1, 2, 3>>

\* C31: a seek request is applied at most once and is cleared by the step that applies it;
\* when no request is pending and none is made, a playback update is not overridden: the
\* player stays where it reported to be and the active segment is the one of that position
SeekIsOneShot ==
  [][/\ hSeekApplied' <= hSeekRequests'
     /\ hSeekApplied' # hSeekApplied
          => /\ audioSeekTimeRef' = <<>>
             /\ audioPosition' = SetCurrentTime(seekTime'[1])
     /\ (audioSeekTimeRef = <<>> /\ hSeekRequests' = hSeekRequests)
          => /\ hSeekApplied' = hSeekApplied
             /\ audioPosition' = audioCurrentTime'
             /\ activeSegmentIndex' = findActiveSegment(segmentsWithTimes, audioPosition')]_vars

\* C31 witness: after a seek to a segment was applied, HomePage has rendered again without
\* a request, and playback has reached the latest position, past every segment's offset
SeekIsOneShotWitness ==
  /\ hSeekRequests = 1
  /\ hSeekApplied = 1
  /\ seekTime = <<>>
  /\ audioPosition = MaxOffset
  /\ audioCurrentTime = MaxOffset
  /\ \A i \in 1..Len(segmentsWithTimes) : segmentsWithTimes[i].relativeTime < MaxOffset

\* C32: a startRecording call whose microphone request fails leaves the error message in
\* the recorder's state and the phase as it was; a recognition error of denied permission
\* becomes the error state, in a step that leaves the phase as it was, and while that error
\* is shown the restart flag is off, no restart timer is set and the stream does not start
\* again by itself
CaptureFailureIsState ==
  [][/\ \A k \in getUserMediaPending :
          (k \notin getUserMediaPending' /\ mediaRecorderRef' # k)
            => (audioError' = "Could not access microphone" /\ phase' = phase)
     /\ (speechError' = "permission-denied" /\ speechError # "permission-denied")
          => phase' = phase
     /\ speechError' = "permission-denied"
          => (~shouldRestartRef' /\ restartTimers' \subseteq restartTimers)
     /\ (speechError = "permission-denied" /\ ~listening /\ phase' = phase)
          => ~listening']_vars

\* C32 witness: during a recording the microphone was refused to the recorder and to the
\* recognition stream, which has ended and is not going to be restarted
CaptureFailureIsStateWitness ==
  /\ phase = "recording"
  /\ audioError = "Could not access microphone"
  /\ speechError = "permission-denied"
  /\ streamEnds >= 1
  /\ ~listening
  /\ restartTimers = {}

\* C33: after any sequence of edits the edited report has the fields of the report it was
\* made from, each of the same type, and differs from it in the values of fields only:
\* the confidence of every field is the one the report had.  A property that is undefined
\* counts as not there, as it reads the same
EditKeepsStructure ==
  LET Shape(obj) ==
        {<<p, obj[p].kind>> : p \in {q \in DOMAIN obj : obj[q].kind # "undefined"}}
  IN /\ Shape(editedReport) = Shape(originalReport)
     /\ \A p \in DOMAIN editedReport :
          p[Len(p)] # "value" => editedReport[p] = originalReport[p]

\* C33 witness: two fields were edited, one of a report field whose note was undefined
EditKeepsStructureWitness ==
  /\ editedFields = {<<"patient", "name">>, <<"symptoms">>}
  /\ originalReport[<<"patient", "name", "confidence", "note">>] = Undefined
  /\ editedReport[<<"symptoms", "value">>].items # originalReport[<<"symptoms", "value">>].items
  /\ <<"patient", "name", "confidence", "note">> \notin DOMAIN editedReport

\* C34: whenever the phase is complete, a report is present or an error message is set
CompleteHasReportOrError ==
  phase = "complete" => (report # 0 \/ analysisError # "none")

\* C35: the step in which a run of runAnalysis ends leaves the guard false, and the guard
\* is true only while a run is in progress, so a request is suppressed only by a run that
\* has not ended
GuardFollowsRun ==
  [][/\ \A r \in Callers :
          (runPc[r] \in {"delay", "gate", "fetch"} /\ runPc'[r] = "done")
            => ~isRunningAnalysisRef'
     /\ isRunningAnalysisRef' => \E r \in Callers : runPc'[r] \in {"delay", "gate", "fetch"}]_vars

\* C35 witness: a run has ended in failure and a later run was let in
GuardFollowsRunWitness ==
  \E r1 \in Callers, r2 \in Callers :
    /\ runPc[r1] = "done"
    /\ runPc[r2] \in {"delay", "gate", "fetch"}
    /\ analysisError = "none"
    /\ report = 0
    /\ isRunningAnalysisRef

\* C36: the phase changes only from idle to recording, recording to processing, processing
\* to complete, complete to recording, complete to idle, and idle to processing
PhaseFollowsMachine ==
  [][phase' # phase =>
       <<phase, phase'>> \in {<<"idle", "recording">>, <<"recording", "processing">>,
                              <<"processing", "complete">>, <<"complete", "recording">>,
                              <<"complete", "idle">>, <<"idle", "processing">>}]_vars

\* C37: when every holder of the lock releases it in the end, a caller that waits inside
\* waitForRateLimit is granted the lock, or is in a sleep that ends after the simulated
\* time.  Stated of caller 1: the callers of the harness are interchangeable
NoWaiterLost ==
  (gpc[1] \in {"waitFlight", "sleepCooldown", "sleepInterval"})
    ~> (\/ gpc[1] = "holding"
        \/ gpc[1] \in {"sleepCooldown", "sleepInterval"} /\ gwake[1] > MaxTime)

\* C37 witness: caller 1 issued its acquire outside a cooldown, was suspended behind a
\* request in flight and resumed by the release, after which it sleeps through a cooldown
\* that ends within the simulated time
NoWaiterLostWitness ==
  /\ gpc[1] = "sleepCooldown"
  /\ cdAtCall[1] = 0
  /\ gwake[1] <= MaxTime

\* C38: the transcript a final-analysis run of a recording takes with it is the list of
\* all segments committed so far, those committed after Stop was pressed included
FinalTranscriptIsComplete ==
  [][\A r \in Callers :
       (runPc[r] = "none" /\ runPc'[r] = "delay" /\ ~isTestTranscriptMode)
         => runSegs'[r] = segments']_vars

====
